---- MODULE Spec2Model ----
(***************************************************************************)
(* A model of ConsensusCluster (cluster.py): the base clustering           *)
(* algorithms HierarchicalCluster, KMeansCluster, PAMCluster and           *)
(* SOMCluster, the distance-matrix builder, and the ConsensusCluster       *)
(* orchestrator (subsampling rounds, co-occurrence counters, consensus     *)
(* matrix, final clustering, reordering), driven by                        *)
(* CommonCluster.run_cluster (common.py).                                  *)
(*                                                                         *)
(* Conventions.  Python lists are sequences read with At(s, i) (0-based).  *)
(* Sample indices are 0..N-1 as in the source.  A nullable value is a      *)
(* tuple of length 0 (None) or 1.  Real numbers are exact rationals        *)
(* <<num, den>> in lowest terms; the source computes in IEEE doubles.      *)
(* Draws of the random module are nondeterministic choices.                *)
(***************************************************************************)
EXTENDS Integers, Sequences, FiniteSets, TLC

VARIABLES
    \* HierarchicalCluster, one instance
    h_datapoints,      \* cluster_id of each sample handed to the instance
    h_distance_matrix, \* the distance matrix the instance clusters
    h_num_clusters,    \* K
    h_linkage,         \* "average" | "single" | "complete"
    h_tree,            \* self.tree: the list of active nodes, then the root
    h_pc,              \* "loop" | "done"
    h_merges,          \* number of merges performed so far
    h_assign_log,      \* merge counts at which _assign_clusters was called
    \* PAMCluster, one instance: a record of the locals of __init__ and
    \* _cluster_data (medoids, new_medoids, old_cost, swapped, i,
    \* search_space, datapoints, distance_matrix, num_clusters, pc)
    pam,
    \* ConsensusCluster under CommonCluster.run_cluster
    cfg,               \* the arguments of the run (kvalues, subsamples, ...)
    cc,                \* per worker (rank): the ConsensusCluster instance, the
                       \* locals of its __init__, and the samples' cluster_id
    arrived,           \* the ranks that have called mpi.barrier()
    g_clustcount,      \* reference sum: co-clusterings over all runs so far
    g_totalcount,      \* reference sum: co-occurrences over all runs so far
    g_round_done,      \* how many times each round 0..subsamples-1 was run
    \* KMeansCluster, one instance: a record of the locals of _cluster_data
    km,
    \* SOMCluster, one instance: a record of the locals of __init__ and
    \* _train_data
    som,
    \* one call of BaseCluster._gen_distance_matrix: a record of its locals
    \* and the calls of the distance function it has made
    gd,
    \* the annealing loop of reorder_consensus with the orders left out: a
    \* record of i, not_accepted and temp
    sched

hvars == <<h_datapoints, h_distance_matrix, h_num_clusters, h_linkage,
           h_tree, h_pc, h_merges, h_assign_log>>

cvars == <<cfg, cc, arrived, g_clustcount, g_totalcount, g_round_done>>

xvars == <<km, som, gd, sched>>

vars == <<hvars, pam, cvars, xvars>>

----------------------------------------------------------------------------
\* Bounds

\* samples handed to one HierarchicalCluster or PAMCluster instance
MaxN == 4

\* samples of the data set ConsensusCluster is run on
MaxSamples == 3

\* subsampling rounds of one ConsensusCluster
MaxSubsamples == 2

\* cooperating workers (mpi.size)
MaxWorkers == 2

\* proposals of the simulated-annealing reorder that are followed
MaxSAIters == 2

----------------------------------------------------------------------------
----------------------------------------------------------------------------
\* Python values

None == <<>>

Some(v) == <<v>>

At(s, i) == s[i + 1]

Range0(n) == 0 .. (n - 1)

\* del s[i] of a Python list
DelAt(s, i) == [x \in 1 .. (Len(s) - 1) |-> IF x <= i THEN s[x] ELSE s[x + 1]]

\* the elements of a list
Elems(s) == {s[x] : x \in 1 .. Len(s)}

----------------------------------------------------------------------------
\* Exact rationals, standing for the floats of the source

RECURSIVE GCD(_, _)
GCD(a, b) == IF b = 0 THEN a ELSE GCD(b, a % b)

Rat(n, d) == LET g == GCD(n, d) IN <<n \div g, d \div g>>

RZero == <<0, 1>>

ROne == <<1, 1>>

RAdd(a, b) == Rat(a[1] * b[2] + b[1] * a[2], a[2] * b[2])

\* a - b, for a >= b
RSub(a, b) == Rat(a[1] * b[2] - b[1] * a[2], a[2] * b[2])

RDivInt(a, n) == Rat(a[1], a[2] * n)

RLess(a, b) == a[1] * b[2] < b[1] * a[2]

RECURSIVE RSum(_)
RSum(s) == IF s = <<>> THEN RZero ELSE RAdd(s[1], RSum(Tail(s)))

RECURSIVE RMin(_)
RMin(s) ==
    IF Len(s) = 1 THEN s[1]
    ELSE LET r == RMin(Tail(s)) IN IF RLess(r, s[1]) THEN r ELSE s[1]

RECURSIVE RMax(_)
RMax(s) ==
    IF Len(s) = 1 THEN s[1]
    ELSE LET r == RMax(Tail(s)) IN IF RLess(s[1], r) THEN r ELSE s[1]

----------------------------------------------------------------------------
\* The distance function (distance.euclidean), to three decimals

Scale == 1000

RECURSIVE ISqrt(_, _, _)
ISqrt(x, lo, hi) ==
    IF lo = hi THEN lo
    ELSE LET mid == (lo + hi + 1) \div 2
         IN  IF mid * mid <= x THEN ISqrt(x, mid, hi) ELSE ISqrt(x, lo, mid - 1)

RECURSIVE SumSq(_, _)
SumSq(a, b) ==
    IF a = <<>> THEN 0
    ELSE (a[1] - b[1]) * (a[1] - b[1]) + SumSq(Tail(a), Tail(b))

euclidean(a, b) == Rat(ISqrt(SumSq(a, b) * Scale * Scale, 0, 40 * Scale), Scale)

----------------------------------------------------------------------------
\* BaseCluster._gen_distance_matrix

gen_distance_matrix(data_matrix, num_samples) ==
    LET upper == [k \in Range0(num_samples) |-> [m \in Range0(num_samples) |->
                    IF k < m THEN euclidean(At(data_matrix, k), At(data_matrix, m))
                    ELSE RZero]]
    IN  [k \in Range0(num_samples) |-> [m \in Range0(num_samples) |->
            RAdd(upper[k][m], upper[m][k])]]

----------------------------------------------------------------------------
\* treetype.Tree: a leaf carries a sample index, an internal node two
\* children and the merge distance

Leaf(x) == [value |-> Some(x), left |-> None, right |-> None, dist |-> None]

Node(l, r, d) == [value |-> None, left |-> Some(l), right |-> Some(r), dist |-> Some(d)]

\* Tree.sequence: the leaf indices under a node, left to right
RECURSIVE Sequence(_)
Sequence(node) ==
    IF node.value # None THEN <<node.value[1]>>
    ELSE Sequence(node.left[1]) \o Sequence(node.right[1])

----------------------------------------------------------------------------
\* HierarchicalCluster

Linkages == {"average", "single", "complete"}

\* distance_matrix.take(fst_clust, 0).take(snd_clust, 1), row by row
Block(distance_matrix, fst_clust, snd_clust) ==
    [x \in 1 .. (Len(fst_clust) * Len(snd_clust)) |->
        distance_matrix[fst_clust[((x - 1) \div Len(snd_clust)) + 1]]
                       [snd_clust[((x - 1) % Len(snd_clust)) + 1]]]

\* numpy.ndarray.mean / min / max of the block
Linkage(linkage, block) ==
    CASE linkage = "average"  -> RDivInt(RSum(block), Len(block))
      [] linkage = "single"   -> RMin(block)
      [] linkage = "complete" -> RMax(block)

\* best = [maxint]: no pair recorded yet; every distance is below maxint
NoBest == <<>>

RECURSIVE ScanBest_LastTie(_, _, _, _, _, _)
RECURSIVE ScanBest(_, _, _, _, _, _)
\* the scan with dist <= best[0]: the last of the closest pairs wins
ScanBest_LastTie(tree, distance_matrix, linkage, k, m, best) ==
    IF k >= Len(tree) THEN best
    ELSE IF m >= Len(tree)
         THEN ScanBest_LastTie(tree, distance_matrix, linkage, k + 1, k + 2, best)
    ELSE LET dist == Linkage(linkage, Block(distance_matrix,
                                 Sequence(At(tree, k)), Sequence(At(tree, m))))
             nb   == IF best = NoBest \/ ~RLess(best[1], dist)
                     THEN <<dist, k, m>> ELSE best
         IN  ScanBest_LastTie(tree, distance_matrix, linkage, k, m + 1, nb)

\* the nested scan over the pairs k < m of active clusters, from pair (k, m) on
ScanBest(tree, distance_matrix, linkage, k, m, best) ==
    IF k >= Len(tree) THEN best
    ELSE IF m >= Len(tree)
         THEN ScanBest(tree, distance_matrix, linkage, k + 1, k + 2, best)
    ELSE LET dist == Linkage(linkage, Block(distance_matrix,
                                 Sequence(At(tree, k)), Sequence(At(tree, m))))
             nb   == IF best = NoBest \/ RLess(dist, best[1])
                     THEN <<dist, k, m>> ELSE best
         IN  ScanBest(tree, distance_matrix, linkage, k, m + 1, nb)

\* the merge with the two deletions in the other order: del tree[best[1]]
\* shifts the list before del tree[best[2]]
MergeBest_LowerFirst(tree, best) ==
    DelAt(DelAt(Append(tree, Node(At(tree, best[2]), At(tree, best[3]), best[1])),
                best[2]), best[3])

\* tree.append(Tree(left, right, dist)); del tree[best[2]]; del tree[best[1]]
MergeBest(tree, best) ==
    DelAt(DelAt(Append(tree, Node(At(tree, best[2]), At(tree, best[3]), best[1])),
                best[3]), best[2])

\* _assign_clusters labelling by the first leaf of the active node
assign_clusters_ByFirstLeaf(tree, datapoints) ==
    [s \in DOMAIN datapoints |->
        IF \E i \in Range0(Len(tree)) : s \in Elems(Sequence(At(tree, i)))
        THEN Some(Sequence(At(tree, CHOOSE i \in Range0(Len(tree)) :
                                        s \in Elems(Sequence(At(tree, i)))))[1])
        ELSE datapoints[s]]

\* _assign_clusters: every sample under active node i gets cluster_id i
assign_clusters(tree, datapoints) ==
    [s \in DOMAIN datapoints |->
        IF \E i \in Range0(Len(tree)) : s \in Elems(Sequence(At(tree, i)))
        THEN Some(CHOOSE i \in Range0(Len(tree)) : s \in Elems(Sequence(At(tree, i))))
        ELSE datapoints[s]]

\* LoopBody with the test for K made after the merge instead of before it
LoopBody_AssignAfterMerge(tree, datapoints, distance_matrix, linkage, num_clusters) ==
    LET best   == ScanBest(tree, distance_matrix, linkage, 0, 1, NoBest)
        merged == MergeBest(tree, best)
    IN  [tree |-> merged,
         datapoints |-> IF Len(merged) = num_clusters
                        THEN assign_clusters(merged, datapoints) ELSE datapoints,
         assigned |-> Len(merged) = num_clusters]

\* one pass of the while loop of _cluster_data
LoopBody(tree, datapoints, distance_matrix, linkage, num_clusters) ==
    LET dp   == IF Len(tree) = num_clusters
                THEN assign_clusters(tree, datapoints) ELSE datapoints
        best == ScanBest(tree, distance_matrix, linkage, 0, 1, NoBest)
    IN  [tree |-> MergeBest(tree, best), datapoints |-> dp,
         assigned |-> Len(tree) = num_clusters]

\* _cluster_data to its end, then self.tree = self.tree[0]
RECURSIVE HRun(_, _, _, _, _)
HRun(tree, datapoints, distance_matrix, linkage, num_clusters) ==
    IF Len(tree) > 1
    THEN LET r == LoopBody(tree, datapoints, distance_matrix, linkage, num_clusters)
         IN  HRun(r.tree, r.datapoints, distance_matrix, linkage, num_clusters)
    ELSE [tree |-> At(tree, 0), datapoints |-> datapoints]
----------------------------------------------------------------------------
\* PAMCluster

\* sum([ min([ distance_matrix[x][j] for x in medoids ]) for j in xrange(num_samples) ])
Cost(medoids, distance_matrix, num_samples) ==
    RSum([j \in 1 .. num_samples |->
            RMin([x \in 1 .. Len(medoids) |-> distance_matrix[medoids[x]][j - 1]])])

\* list.sort(reverse=True) of a list of distinct indices
RECURSIVE SortDesc(_)
SortDesc(s) ==
    IF s = <<>> THEN <<>>
    ELSE LET mx == CHOOSE x \in 1 .. Len(s) : \A y \in 1 .. Len(s) : s[y] <= s[x]
         IN  <<s[mx]>> \o SortDesc(DelAt(s, mx - 1))

\* for idx in not_search: del search_space[idx]
RECURSIVE DelAll(_, _)
DelAll(search_space, not_search) ==
    IF not_search = <<>> THEN search_space
    ELSE DelAll(DelAt(search_space, not_search[1]), Tail(not_search))

\* the label as the position of the nearest medoid in the list of medoids
NearestMedoid_Position(medoids, distance_matrix, j) ==
    CHOOSE p \in Range0(Len(medoids)) :
        \A q \in Range0(Len(medoids)) :
            \/ RLess(distance_matrix[At(medoids, p)][j], distance_matrix[At(medoids, q)][j])
            \/ (distance_matrix[At(medoids, p)][j] = distance_matrix[At(medoids, q)][j]
                    /\ At(medoids, p) <= At(medoids, q))

\* min([ (distance_matrix[x][j], x) for x in medoids ])[1]
NearestMedoid(medoids, distance_matrix, j) ==
    CHOOSE x \in Elems(medoids) :
        \A y \in Elems(medoids) :
            \/ RLess(distance_matrix[x][j], distance_matrix[y][j])
            \/ (distance_matrix[x][j] = distance_matrix[y][j] /\ x <= y)

\* __init__ up to the call of _cluster_data, and the head of _cluster_data;
\* sample is the list random.sample(xrange(num_samples), num_clusters) drew
PStart(distance_matrix, num_samples, num_clusters, sample) ==
    [pc |-> "while", sample |-> sample, medoids |-> sample, new_medoids |-> <<>>,
     old_cost |-> Cost(sample, distance_matrix, num_samples),
     swapped |-> 1, i |-> 0, search_space |-> <<>>,
     datapoints |-> [s \in Range0(num_samples) |-> None],
     distance_matrix |-> distance_matrix, num_samples |-> num_samples,
     num_clusters |-> num_clusters]

\* random.sample raises ValueError when num_clusters > num_samples, and
\* min([]) raises ValueError when num_clusters = 0
PRaise(distance_matrix, num_samples, num_clusters) ==
    [pc |-> "raised", sample |-> <<>>, medoids |-> <<>>, new_medoids |-> <<>>,
     old_cost |-> RZero,
     swapped |-> 1, i |-> 0, search_space |-> <<>>,
     datapoints |-> [s \in Range0(num_samples) |-> None],
     distance_matrix |-> distance_matrix, num_samples |-> num_samples,
     num_clusters |-> num_clusters]

\* while swapped: swapped = 0
PWhileStep(st) ==
    IF st.swapped = 1
    THEN [st EXCEPT !.swapped = 0, !.i = 0, !.pc = "slot"]
    ELSE [st EXCEPT !.pc = "assign"]

\* the loop over the slots that scans slot 0 only
PSlotStep_FirstSlotOnly(st) ==
    IF st.i < 1
    THEN LET new_medoids == SortDesc(st.medoids)
         IN  [st EXCEPT !.new_medoids = new_medoids,
                        !.search_space = DelAll([x \in 1 .. st.num_samples |-> x - 1],
                                                new_medoids),
                        !.pc = "cand"]
    ELSE [st EXCEPT !.pc = "while"]

\* for i in xrange(self.num_clusters): the statements before the inner loop.
\* not_search is the same list object as new_medoids, so the sort reorders
\* new_medoids itself.
PSlotStep(st) ==
    IF st.i < st.num_clusters
    THEN LET new_medoids == SortDesc(st.medoids)
         IN  [st EXCEPT !.new_medoids = new_medoids,
                        !.search_space = DelAll([x \in 1 .. st.num_samples |-> x - 1],
                                                new_medoids),
                        !.pc = "cand"]
    ELSE [st EXCEPT !.pc = "while"]

\* PCandStep with the cost comparison reversed
PCandStep_Reversed(st) ==
    IF st.search_space = <<>>
    THEN [st EXCEPT !.i = st.i + 1, !.pc = "slot"]
    ELSE LET sample_idx  == Head(st.search_space)
             new_medoids == [st.new_medoids EXCEPT ![st.i + 1] = sample_idx]
             new_cost    == Cost(new_medoids, st.distance_matrix, st.num_samples)
         IN  IF RLess(st.old_cost, new_cost)
             THEN [st EXCEPT !.search_space = Tail(st.search_space),
                             !.new_medoids = new_medoids,
                             !.swapped = 1, !.old_cost = new_cost,
                             !.medoids = new_medoids]
             ELSE [st EXCEPT !.search_space = Tail(st.search_space),
                             !.new_medoids = new_medoids]

\* PCandStep adopting a candidate of equal cost as well
PCandStep_AdoptOnTie(st) ==
    IF st.search_space = <<>>
    THEN [st EXCEPT !.i = st.i + 1, !.pc = "slot"]
    ELSE LET sample_idx  == Head(st.search_space)
             new_medoids == [st.new_medoids EXCEPT ![st.i + 1] = sample_idx]
             new_cost    == Cost(new_medoids, st.distance_matrix, st.num_samples)
         IN  IF ~RLess(st.old_cost, new_cost)
             THEN [st EXCEPT !.search_space = Tail(st.search_space),
                             !.new_medoids = new_medoids,
                             !.swapped = 1, !.old_cost = new_cost,
                             !.medoids = new_medoids]
             ELSE [st EXCEPT !.search_space = Tail(st.search_space),
                             !.new_medoids = new_medoids]

\* for sample_idx in search_space: one candidate
PCandStep(st) ==
    IF st.search_space = <<>>
    THEN [st EXCEPT !.i = st.i + 1, !.pc = "slot"]
    ELSE LET sample_idx  == Head(st.search_space)
             new_medoids == [st.new_medoids EXCEPT ![st.i + 1] = sample_idx]
             new_cost    == Cost(new_medoids, st.distance_matrix, st.num_samples)
         IN  IF RLess(new_cost, st.old_cost)
             THEN [st EXCEPT !.search_space = Tail(st.search_space),
                             !.new_medoids = new_medoids,
                             !.swapped = 1, !.old_cost = new_cost,
                             !.medoids = new_medoids]
             ELSE [st EXCEPT !.search_space = Tail(st.search_space),
                             !.new_medoids = new_medoids]

\* __init__ after _cluster_data returned: assign cluster ids
PAssignStep(st) ==
    [st EXCEPT !.datapoints = [j \in Range0(st.num_samples) |->
                    Some(NearestMedoid(st.medoids, st.distance_matrix, j))],
               !.pc = "done"]

\* PAMCluster.__init__ from the head of the while loop to its end
RECURSIVE PRun(_)
PRun(st) ==
    CASE st.pc = "while"  -> PRun(PWhileStep(st))
      [] st.pc = "slot"   -> PRun(PSlotStep(st))
      [] st.pc = "cand"   -> PRun(PCandStep(st))
      [] st.pc = "assign" -> PRun(PAssignStep(st))
      [] OTHER            -> st

\* the lists random.sample(xrange(n), k) can return
Samples(n, k) ==
    {s \in [1 .. k -> Range0(n)] : \A a, b \in 1 .. k : a # b => s[a] # s[b]}

\* the sample data the instances are built from (rows of a data matrix)
PointPool == << <<0, 0>>, <<0, 1>>, <<1, 0>>, <<10, 0>>, <<10, 1>> >>

\* data matrices: 1..MaxN distinct rows of the pool, in any order
DataMatrices ==
    UNION {{dm \in [1 .. n -> Elems(PointPool)] :
                \A a, b \in 1 .. n : a # b => dm[a] # dm[b]} : n \in 1 .. MaxN}

\* data matrices given in the order of the pool
OrderedDataMatrices ==
    {dm \in DataMatrices : \A a, b \in 1 .. Len(dm) : a < b =>
        (CHOOSE x \in 1 .. Len(PointPool) : PointPool[x] = dm[a])
            < (CHOOSE x \in 1 .. Len(PointPool) : PointPool[x] = dm[b])}

----------------------------------------------------------------------------
\* mpi_compat: the worker-coordination layer

\* mpi.scatter(range(total)) at one rank: a contiguous slice; the slices of
\* the ranks are disjoint and cover the range
Scatter(total, size, rank) ==
    LET base  == total \div size
        extra == total % size
        first == rank * base + (IF rank < extra THEN rank ELSE extra)
        len   == base + (IF rank < extra THEN 1 ELSE 0)
    IN  [x \in 1 .. len |-> first + x - 1]

\* mpi.gather(matrices): the lists handed in by ranks 0..size-1, joined in
\* rank order; every rank receives the same list
RECURSIVE Gather(_, _)
Gather(lists, size) ==
    IF size = 0 THEN <<>> ELSE Gather(lists, size - 1) \o lists[size - 1]

----------------------------------------------------------------------------
\* ConsensusCluster

\* len(self.datapoints[0].data)
VecLen == Len(PointPool[1])

\* sdata.samples[s].data
Data(s) == PointPool[s + 1]

\* numpy.zeros((dim, dim), dtype=float), as counts and as ratios
ZeroMatrix(dim) == [k \in Range0(dim) |-> [m \in Range0(dim) |-> 0]]

RZeroMatrix(dim) == [k \in Range0(dim) |-> [m \in Range0(dim) |-> RZero]]

\* int(len(...) * subsample_fraction)
Fraction(len, subsample_fraction) ==
    (len * subsample_fraction[1]) \div subsample_fraction[2]

\* run_clustering: the runs it makes, in order, as <<algorithm, linkage>>
RECURSIVE Runs(_, _)
Runs(clustering_algs, linkages) ==
    IF clustering_algs = <<>> THEN <<>>
    ELSE (IF Head(clustering_algs) = "Hierarchical"
          THEN [x \in 1 .. Len(linkages) |-> <<"Hierarchical", linkages[x]>>]
          ELSE << <<Head(clustering_algs), "None">> >>)
         \o Runs(Tail(clustering_algs), linkages)

\* M.take(sample_gene_indices, 1), one row
TakeCols(row, indices) == [x \in 1 .. Len(indices) |-> row[indices[x] + 1]]

\* _gen_dataset: the (dataset, data matrix) pairs it can return; raised when
\* M[0] does not exist (no sample drawn) and is read
gen_dataset(c) ==
    LET n       == c.num_samples
        choices == IF c.subsample_fraction = None THEN {1} ELSE {1, 2, 3, 4}
        all     == [x \in 1 .. VecLen |-> x - 1]
    IN  UNION {
          LET datasets == IF a \in {2, 4}
                          THEN Samples(n, Fraction(n, c.subsample_fraction[1]))
                          ELSE Samples(n, n)
              genes    == IF a \in {3, 4}
                          THEN Samples(VecLen, Fraction(VecLen, c.subsample_fraction[1]))
                          ELSE {all}
          IN  {[dataset |-> ds,
                data_matrix |-> [x \in 1 .. Len(ds) |-> TakeCols(Data(ds[x]), g)],
                raised |-> (a \in {3, 4} /\ ds = <<>>)] : ds \in datasets, g \in genes}
          : a \in choices}

\* the cluster_id of the samples of the dataset, by position in the dataset
LocalView(cluster_id, dataset) ==
    [j \in Range0(Len(dataset)) |-> cluster_id[dataset[j + 1]]]

\* the samples' cluster_id after an algorithm wrote those of the dataset
WriteBack(cluster_id, dataset, local) ==
    [s \in DOMAIN cluster_id |->
        IF \E j \in 1 .. Len(dataset) : dataset[j] = s
        THEN local[(CHOOSE j \in 1 .. Len(dataset) : dataset[j] = s) - 1]
        ELSE cluster_id[s]]

Leaves(n) == [x \in 1 .. n |-> Leaf(x - 1)]

\* HierarchicalCluster(datapoints, data_matrix, K, distance_metric, linkage,
\* distance_matrix): the labels and the tree it leaves
RunHierarchical(datapoints, distance_matrix, num_clusters, linkage) ==
    LET r == HRun(Leaves(Cardinality(DOMAIN datapoints)), datapoints,
                  distance_matrix, linkage, num_clusters)
    IN  {[raised |-> FALSE, datapoints |-> r.datapoints, tree |-> Some(r.tree)]}

\* PAMCluster(...): the labels it can leave, one per draw of the initial
\* medoids; it raises when the draw or the first cost cannot be computed
RunPAM(datapoints, distance_matrix, num_clusters) ==
    LET n == Cardinality(DOMAIN datapoints)
    IN  IF num_clusters = 0 \/ num_clusters > n
        THEN {[raised |-> TRUE, datapoints |-> datapoints, tree |-> None]}
        ELSE {[raised |-> FALSE,
               datapoints |-> PRun(PStart(distance_matrix, n, num_clusters, s)).datapoints,
               tree |-> None] : s \in Samples(n, num_clusters)}

\* KMeansCluster(...): every sample of the dataset is labelled with the index
\* of a centroid; which one depends on the random initial centroids
RunKMeans(datapoints, num_clusters) ==
    IF num_clusters = 0
    THEN {[raised |-> TRUE, datapoints |-> datapoints, tree |-> None]}
    ELSE {[raised |-> FALSE, datapoints |-> l, tree |-> None] :
            l \in [DOMAIN datapoints -> {Some(k) : k \in Range0(num_clusters)}]}

\* run(alg, dataset, data_matrix, linkage), the call of the algorithm:
\* BaseCluster.__init__ reads data_matrix[0]
RunAlg(alg, linkage, dataset, data_matrix, num_clusters, cluster_id) ==
    IF dataset = <<>>
    THEN {[raised |-> TRUE, cluster_id |-> cluster_id]}
    ELSE LET local == LocalView(cluster_id, dataset)
             dm    == gen_distance_matrix(data_matrix, Len(dataset))
             outs  == CASE alg = "Hierarchical" ->
                              RunHierarchical(local, dm, num_clusters, linkage)
                        [] alg = "PAM" -> RunPAM(local, dm, num_clusters)
                        [] alg = "KMeans" -> RunKMeans(local, num_clusters)
         IN  {[raised |-> o.raised,
               cluster_id |-> WriteBack(cluster_id, dataset, o.datapoints)] : o \in outs}

\* upd_similarity_matrix counting every pair in both triangles
upd_similarity_matrix_BothTriangles(clustcount, totalcount, cluster_id, num_samples) ==
    LET counted(k, m) == k # m /\ ~(cluster_id[k] = None \/ cluster_id[m] = None)
    IN  [clustcount |->
            [k \in Range0(num_samples) |-> [m \in Range0(num_samples) |->
                IF counted(k, m) /\ cluster_id[k] = cluster_id[m]
                THEN clustcount[k][m] + 1 ELSE clustcount[k][m]]],
         totalcount |->
            [k \in Range0(num_samples) |-> [m \in Range0(num_samples) |->
                IF counted(k, m) THEN totalcount[k][m] + 1 ELSE totalcount[k][m]]]]

\* upd_similarity_matrix counting a pair as soon as one of its labels is set
upd_similarity_matrix_OneLabelled(clustcount, totalcount, cluster_id, num_samples) ==
    LET counted(k, m) == k < m /\ ~(cluster_id[k] = None /\ cluster_id[m] = None)
    IN  [clustcount |->
            [k \in Range0(num_samples) |-> [m \in Range0(num_samples) |->
                IF counted(k, m) /\ cluster_id[k] = cluster_id[m]
                THEN clustcount[k][m] + 1 ELSE clustcount[k][m]]],
         totalcount |->
            [k \in Range0(num_samples) |-> [m \in Range0(num_samples) |->
                IF counted(k, m) THEN totalcount[k][m] + 1 ELSE totalcount[k][m]]]]

\* upd_similarity_matrix: the pairs k < m = k + j scanned by the two loops
upd_similarity_matrix(clustcount, totalcount, cluster_id, num_samples) ==
    LET counted(k, m) == k < m /\ ~(cluster_id[k] = None \/ cluster_id[m] = None)
    IN  [clustcount |->
            [k \in Range0(num_samples) |-> [m \in Range0(num_samples) |->
                IF counted(k, m) /\ cluster_id[k] = cluster_id[m]
                THEN clustcount[k][m] + 1 ELSE clustcount[k][m]]],
         totalcount |->
            [k \in Range0(num_samples) |-> [m \in Range0(num_samples) |->
                IF counted(k, m) THEN totalcount[k][m] + 1 ELSE totalcount[k][m]]]]

\* _reset_clusters starting at the second sample
reset_clusters_SkipFirst(cluster_id) ==
    [s \in DOMAIN cluster_id |-> IF s = 0 THEN cluster_id[s] ELSE None]

\* _reset_clusters
reset_clusters(cluster_id) == [s \in DOMAIN cluster_id |-> None]

\* sum(matrices) of a list of count matrices
RECURSIVE MatSum(_, _)
MatSum(matrices, dim) ==
    IF matrices = <<>> THEN ZeroMatrix(dim)
    ELSE LET rest == MatSum(Tail(matrices), dim)
         IN  [k \in Range0(dim) |-> [m \in Range0(dim) |->
                matrices[1][k][m] + rest[k][m]]]

\* consensus_matrix + consensus_matrix.transpose()
PlusTranspose(matrix, dim) ==
    [k \in Range0(dim) |-> [m \in Range0(dim) |-> RAdd(matrix[k][m], matrix[m][k])]]

\* gen_consensus_matrix without the threshold
gen_consensus_matrix_NoThreshold(clustcount_matrices, totalcount_matrices, consensus_matrix, thresh, num_samples) ==
    LET final_matrix_clustcount == MatSum(clustcount_matrices, num_samples)
        final_matrix_totalcount == MatSum(totalcount_matrices, num_samples)
        ratio(k, m) == Rat(final_matrix_clustcount[k][m], final_matrix_totalcount[k][m])
        filled == [k \in Range0(num_samples) |-> [m \in Range0(num_samples) |->
                    IF k < m /\ final_matrix_totalcount[k][m] # 0
                    THEN ratio(k, m)
                    ELSE consensus_matrix[k][m]]]
    IN  PlusTranspose(filled, num_samples)

\* gen_consensus_matrix
gen_consensus_matrix(clustcount_matrices, totalcount_matrices, consensus_matrix, thresh, num_samples) ==
    LET final_matrix_clustcount == MatSum(clustcount_matrices, num_samples)
        final_matrix_totalcount == MatSum(totalcount_matrices, num_samples)
        ratio(k, m) == Rat(final_matrix_clustcount[k][m], final_matrix_totalcount[k][m])
        filled == [k \in Range0(num_samples) |-> [m \in Range0(num_samples) |->
                    IF k < m /\ final_matrix_totalcount[k][m] # 0
                    THEN (IF RLess(ratio(k, m), thresh) THEN RZero ELSE ratio(k, m))
                    ELSE consensus_matrix[k][m]]]
    IN  PlusTranspose(filled, num_samples)

\* 1 - self.consensus_matrix
Complement(consensus_matrix, dim) ==
    [k \in Range0(dim) |-> [m \in Range0(dim) |-> RSub(ROne, consensus_matrix[k][m])]]

\* hcluster_consensus: the final labels and tree it can leave
hcluster_consensus(final_alg, cluster_id, consensus_matrix, num_clusters, num_samples) ==
    LET dm == Complement(consensus_matrix, num_samples)
    IN  CASE final_alg = "Hierarchical" ->
                RunHierarchical(cluster_id, dm, num_clusters, "average")
          [] final_alg = "PAM" -> RunPAM(cluster_id, dm, num_clusters)

\* treetype.reorder(tree, matrix): each internal node keeps or swaps its two
\* subtrees; the trees it can leave
RECURSIVE Orientations(_)
Orientations(node) ==
    IF node.value # None THEN {node}
    ELSE LET ls == Orientations(node.left[1])
             rs == Orientations(node.right[1])
         IN  {Node(l, r, node.dist[1]) : l \in ls, r \in rs}
                \cup {Node(r, l, node.dist[1]) : l \in ls, r \in rs}

\* matrix.take(order, 1)
Take1(matrix, order, dim) ==
    [k \in Range0(dim) |-> [m \in Range0(dim) |-> matrix[k][At(order, m)]]]

\* matrix.transpose()
Transpose(matrix, dim) ==
    [k \in Range0(dim) |-> [m \in Range0(dim) |-> matrix[m][k]]]

\* consensus_matrix.take(best_order, 1): one axis only
Reordered_OneAxis(matrix, best_order, dim) == Take1(matrix, best_order, dim)

\* consensus_matrix.take(best_order, 1).transpose().take(best_order, 1)
Reordered(matrix, best_order, dim) ==
    Take1(Transpose(Take1(matrix, best_order, dim), dim), best_order, dim)

\* numpy.array([x.cluster_id ...]).argsort(): the orders that sort the
\* labels; the order of equal labels is not fixed by the sort
Argsort(cluster_id, num_samples) ==
    {p \in Samples(num_samples, num_samples) :
        \A a, b \in 1 .. num_samples :
            a < b => cluster_id[p[a]][1] <= cluster_id[p[b]][1]}

RMul(a, b) == Rat(a[1] * b[1], a[2] * b[2])

\* energy: the squared sum of the similarities of neighbours in the order
energy(x, matrix) ==
    LET s == RSum([i \in 1 .. (Len(x) - 1) |-> matrix[x[i]][x[i + 1]]])
    IN  RMul(s, s)

\* list.pop(i) leaves, and list.insert(i, v) makes
PopAt(s, i) == DelAt(s, i)

InsertAt(s, i, v) ==
    [x \in 1 .. (Len(s) + 1) |-> IF x <= i THEN s[x] ELSE IF x = i + 1 THEN v ELSE s[x - 1]]

\* a proposal that exchanges the elements at the two drawn positions
Proposal_Exchange(sample_order, a, b) ==
    [x \in 1 .. Len(sample_order) |->
        IF x = a + 1 THEN At(sample_order, b)
        ELSE IF x = b + 1 THEN At(sample_order, a) ELSE sample_order[x]]

\* the random insertion of one proposal, for the drawn a # b
Proposal(sample_order, a, b) ==
    IF a < b THEN InsertAt(PopAt(sample_order, b), a, At(sample_order, b))
    ELSE InsertAt(PopAt(sample_order, a), b, At(sample_order, a))

----------------------------------------------------------------------------
\* The run: CommonCluster.run_cluster builds one ConsensusCluster per K

\* a run: the arguments of CommonCluster and ConsensusCluster, and the
\* coordination layer
Config(n, kvalues, subsamples, subsample_fraction, clustering_algs, linkages, final_alg, matrix_thresh, mpi_enabled, size) ==
    [num_samples |-> n, kvalues |-> kvalues, subsamples |-> subsamples,
     subsample_fraction |-> subsample_fraction, clustering_algs |-> clustering_algs,
     linkages |-> linkages, final_alg |-> final_alg, matrix_thresh |-> matrix_thresh,
     MPI_ENABLED |-> mpi_enabled, size |-> size]

\* the lists of K values for n samples: one valid K, or two in sequence
KValues(n) == {<<k>> : k \in 1 .. n} \cup (IF n >= 2 THEN {<<n, 2>>} ELSE {})

\* one hierarchical round under two linkages, with and without subsampling;
\* and several rounds for two successive K on three samples
HierarchicalConfigs ==
    UNION {{Config(n, kv, 1, frac, <<"Hierarchical">>, <<"single", "complete">>,
                   "Hierarchical", RZero, FALSE, 1) :
                kv \in KValues(n), frac \in {None, Some(<<4, 5>>)}} : n \in 1 .. MaxSamples}
        \cup {Config(3, <<3, 2>>, sub, None, <<"Hierarchical">>, <<"single", "complete">>,
                     "Hierarchical", RZero, FALSE, 1) : sub \in 1 .. MaxSubsamples}

\* K-means rounds on three samples, and one round on a subsample, before a
\* hierarchical final clustering of a thresholded matrix; and one K-means
\* round before a PAM final clustering
KMeansConfigs ==
    {Config(3, <<2>>, sub, None, <<"KMeans">>, <<"average">>, "Hierarchical",
            <<2, 3>>, FALSE, 1) : sub \in 1 .. MaxSubsamples}
        \cup {Config(3, <<2>>, 1, Some(<<4, 5>>), <<"KMeans">>, <<"average">>,
                     "Hierarchical", <<2, 3>>, FALSE, 1)}
        \cup {Config(n, <<2>>, 1, None, <<"KMeans">>, <<"average">>, "PAM",
                     RZero, FALSE, 1) : n \in {2, 3}}

\* one round of PAM and hierarchical clustering, every valid K
PAMConfigs ==
    UNION {{Config(n, <<k>>, 1, None, <<"PAM", "Hierarchical">>, <<"average">>,
                   "PAM", RZero, FALSE, 1) : k \in 1 .. n} : n \in 1 .. MaxSamples}

\* the runs under MPI: mpi.size workers share the K-means rounds on two samples
MPIConfigs ==
    {Config(2, <<2>>, sub, None, <<"KMeans">>, <<"average">>, "Hierarchical",
            RZero, TRUE, size) :
        sub \in 1 .. MaxSubsamples, size \in 1 .. MaxWorkers}

Configs == HierarchicalConfigs \cup KMeansConfigs \cup PAMConfigs \cup MPIConfigs

Ranks == Range0(cfg.size)

\* ConsensusCluster.__init__ up to the loop over the rounds, at one rank
NewInstance(c, rank, k_idx, cluster_id) ==
    [pc |-> "round", k_idx |-> k_idx, num_clusters |-> c.kvalues[k_idx],
     cluster_id |-> cluster_id,
     sim_matrix_clustcount |-> ZeroMatrix(c.num_samples),
     sim_matrix_totalcount |-> ZeroMatrix(c.num_samples),
     consensus_matrix |-> RZeroMatrix(c.num_samples),
     tree |-> None, reorder_indices |-> None,
     local_subsamples |-> IF c.MPI_ENABLED THEN Scatter(c.subsamples, c.size, rank)
                          ELSE [x \in 1 .. c.subsamples |-> x - 1],
     i |-> 1, dataset |-> <<>>, data_matrix |-> <<>>, run_idx |-> 0,
     clustcount_matrices |-> <<>>, totalcount_matrices |-> <<>>,
     sample_order |-> <<>>, best_order |-> <<>>, best_energy |-> RZero,
     sa_i |-> 0, last_best |-> 0, not_accepted |-> 0, temp |-> <<1, 2>>,
     start_energy |-> RZero]

\* no run
CIdle ==
    /\ cfg = [size |-> 0]
    /\ cc = <<>>
    /\ arrived = {}
    /\ g_clustcount = <<>>
    /\ g_totalcount = <<>>
    /\ g_round_done = <<>>

\* no PAMCluster instance
PIdle == [pc |-> "idle"]

\* no KMeansCluster instance, no SOMCluster instance, no call of
\* _gen_distance_matrix, no annealing loop on its own
XIdle ==
    /\ km = [pc |-> "idle"]
    /\ som = [pc |-> "idle"]
    /\ gd = [pc |-> "idle"]
    /\ sched = [pc |-> "idle"]

\* no HierarchicalCluster instance
HIdle ==
    /\ h_datapoints = <<>>
    /\ h_distance_matrix = <<>>
    /\ h_num_clusters = 0
    /\ h_linkage = "average"
    /\ h_tree = <<>>
    /\ h_pc = "idle"
    /\ h_merges = 0
    /\ h_assign_log = <<>>

Init ==
    /\ cfg \in Configs
    /\ cc = [r \in Ranks |->
                NewInstance(cfg, r, 1, [s \in Range0(cfg.num_samples) |-> None])]
    /\ arrived = {}
    /\ g_clustcount = ZeroMatrix(cfg.num_samples)
    /\ g_totalcount = ZeroMatrix(cfg.num_samples)
    /\ g_round_done = [k \in Range0(cfg.subsamples) |-> 0]
    /\ HIdle
    /\ pam = PIdle
    /\ XIdle

Me(r) == cc[r]

Ghosts == <<g_clustcount, g_totalcount, g_round_done>>

Others == <<hvars, pam, cfg, xvars>>

\* for i in xrange(1, len(local_subsamples) + 1): run_clustering begins with
\* _gen_dataset
StartRound(r) ==
    /\ Me(r).pc = "round"
    /\ Me(r).i <= Len(Me(r).local_subsamples)
    /\ \E d \in gen_dataset(cfg) :
          cc' = [cc EXCEPT ![r] =
                    IF d.raised THEN [@ EXCEPT !.pc = "raised"]
                    ELSE [@ EXCEPT !.dataset = d.dataset,
                                   !.data_matrix = d.data_matrix,
                                   !.run_idx = 0, !.pc = "run"]]
    /\ UNCHANGED <<arrived, Ghosts, Others>>

\* run(alg, ...): the algorithm clusters the dataset
RunAlgorithm(r) ==
    /\ Me(r).pc = "run"
    /\ Me(r).run_idx < Len(Runs(cfg.clustering_algs, cfg.linkages))
    /\ LET run == At(Runs(cfg.clustering_algs, cfg.linkages), Me(r).run_idx)
       IN  \E o \in RunAlg(run[1], run[2], Me(r).dataset, Me(r).data_matrix,
                           Me(r).num_clusters, Me(r).cluster_id) :
              cc' = [cc EXCEPT ![r] =
                        IF o.raised THEN [@ EXCEPT !.pc = "raised"]
                        ELSE [@ EXCEPT !.cluster_id = o.cluster_id, !.pc = "upd"]]
    /\ UNCHANGED <<arrived, Ghosts, Others>>

\* run(alg, ...): self.upd_similarity_matrix()
UpdSimilarity(r) ==
    /\ Me(r).pc = "upd"
    /\ LET u == upd_similarity_matrix(Me(r).sim_matrix_clustcount,
                                      Me(r).sim_matrix_totalcount,
                                      Me(r).cluster_id, cfg.num_samples)
       IN  cc' = [cc EXCEPT ![r] = [@ EXCEPT !.sim_matrix_clustcount = u.clustcount,
                                             !.sim_matrix_totalcount = u.totalcount,
                                             !.pc = "reset"]]
    /\ LET both(k, m) == k < m /\ Me(r).cluster_id[k] # None /\ Me(r).cluster_id[m] # None
       IN  /\ g_totalcount' = [k \in Range0(cfg.num_samples) |->
                                [m \in Range0(cfg.num_samples) |->
                                    g_totalcount[k][m] + (IF both(k, m) THEN 1 ELSE 0)]]
           /\ g_clustcount' = [k \in Range0(cfg.num_samples) |->
                                [m \in Range0(cfg.num_samples) |->
                                    g_clustcount[k][m]
                                    + (IF both(k, m) /\ Me(r).cluster_id[k] = Me(r).cluster_id[m]
                                       THEN 1 ELSE 0)]]
    /\ UNCHANGED <<arrived, g_round_done, Others>>

\* run(alg, ...): self._reset_clusters(), and on to the next algorithm
ResetClusters(r) ==
    /\ Me(r).pc = "reset"
    /\ cc' = [cc EXCEPT ![r] = [@ EXCEPT !.cluster_id = reset_clusters(@),
                                         !.run_idx = @ + 1, !.pc = "run"]]
    /\ UNCHANGED <<arrived, Ghosts, Others>>

\* run_clustering returns; the next round
EndRound(r) ==
    /\ Me(r).pc = "run"
    /\ Me(r).run_idx >= Len(Runs(cfg.clustering_algs, cfg.linkages))
    /\ cc' = [cc EXCEPT ![r] = [@ EXCEPT !.i = @ + 1, !.dataset = <<>>,
                                         !.data_matrix = <<>>, !.run_idx = 0,
                                         !.pc = "round"]]
    /\ g_round_done' = [g_round_done EXCEPT
                            ![At(Me(r).local_subsamples, Me(r).i - 1)] = @ + 1]
    /\ UNCHANGED <<arrived, g_clustcount, g_totalcount, Others>>

\* the end of the loop over the rounds without the call of mpi.barrier()
FinishRounds_NoBarrier(r) ==
    /\ Me(r).pc = "round"
    /\ Me(r).i > Len(Me(r).local_subsamples)
    /\ cc' = [cc EXCEPT ![r] =
                [@ EXCEPT !.clustcount_matrices = <<Me(r).sim_matrix_clustcount>>,
                          !.totalcount_matrices = <<Me(r).sim_matrix_totalcount>>,
                          !.pc = IF cfg.MPI_ENABLED THEN "gather" ELSE "consensus"]]
    /\ arrived' = arrived
    /\ UNCHANGED <<Ghosts, Others>>

\* the loop over the rounds is over: the lists of own matrices are built and,
\* under MPI, mpi.barrier() is called
FinishRounds(r) ==
    /\ Me(r).pc = "round"
    /\ Me(r).i > Len(Me(r).local_subsamples)
    /\ cc' = [cc EXCEPT ![r] =
                [@ EXCEPT !.clustcount_matrices = <<Me(r).sim_matrix_clustcount>>,
                          !.totalcount_matrices = <<Me(r).sim_matrix_totalcount>>,
                          !.pc = IF cfg.MPI_ENABLED THEN "barrier" ELSE "consensus"]]
    /\ arrived' = IF cfg.MPI_ENABLED THEN arrived \cup {r} ELSE arrived
    /\ UNCHANGED <<Ghosts, Others>>

\* mpi.barrier() returns once every rank has called it
Barrier(r) ==
    /\ Me(r).pc = "barrier"
    /\ arrived = Ranks
    /\ cc' = [cc EXCEPT ![r] = [@ EXCEPT !.pc = "gather"]]
    /\ UNCHANGED <<arrived, Ghosts, Others>>

\* the lists left as they are, without the calls of mpi.gather
GatherMatrices_OwnOnly(r) ==
    /\ Me(r).pc = "gather"
    /\ cc' = [cc EXCEPT ![r] = [@ EXCEPT !.pc = "consensus"]]
    /\ UNCHANGED <<arrived, Ghosts, Others>>

\* the two calls of mpi.gather
GatherMatrices(r) ==
    /\ Me(r).pc = "gather"
    /\ cc' = [cc EXCEPT ![r] =
                [@ EXCEPT !.clustcount_matrices =
                              Gather([q \in Ranks |-> <<cc[q].sim_matrix_clustcount>>],
                                     cfg.size),
                          !.totalcount_matrices =
                              Gather([q \in Ranks |-> <<cc[q].sim_matrix_totalcount>>],
                                     cfg.size),
                          !.pc = "consensus"]]
    /\ UNCHANGED <<arrived, Ghosts, Others>>

\* self.consensus_matrix = self.gen_consensus_matrix(...)
GenConsensus(r) ==
    /\ Me(r).pc = "consensus"
    /\ cc' = [cc EXCEPT ![r] =
                [@ EXCEPT !.consensus_matrix =
                              gen_consensus_matrix(Me(r).clustcount_matrices,
                                                   Me(r).totalcount_matrices,
                                                   Me(r).consensus_matrix,
                                                   cfg.matrix_thresh, cfg.num_samples),
                          !.pc = "hcluster"]]
    /\ UNCHANGED <<arrived, Ghosts, Others>>

\* self.hcluster_consensus()
HclusterConsensus(r) ==
    /\ Me(r).pc = "hcluster"
    /\ \E o \in hcluster_consensus(cfg.final_alg, Me(r).cluster_id,
                                   Me(r).consensus_matrix, Me(r).num_clusters,
                                   cfg.num_samples) :
          cc' = [cc EXCEPT ![r] =
                    IF o.raised THEN [@ EXCEPT !.pc = "raised"]
                    ELSE [@ EXCEPT !.cluster_id = o.datapoints,
                                   !.tree = IF cfg.final_alg = "Hierarchical"
                                            THEN o.tree ELSE Me(r).tree,
                                   !.pc = "reorder"]]
    /\ UNCHANGED <<arrived, Ghosts, Others>>

\* reorder_consensus with a tree: treetype.reorder, then both axes reordered
ReorderTree(r) ==
    /\ Me(r).pc = "reorder"
    /\ Me(r).tree # None
    /\ \E t \in Orientations(Me(r).tree[1]) :
          cc' = [cc EXCEPT ![r] =
                    [@ EXCEPT !.tree = Some(t),
                              !.best_order = Sequence(t),
                              !.reorder_indices = Some(Sequence(t)),
                              !.consensus_matrix =
                                  Reordered(Me(r).consensus_matrix, Sequence(t),
                                            cfg.num_samples),
                              !.pc = "done"]]
    /\ UNCHANGED <<arrived, Ghosts, Others>>

\* reorder_consensus without a tree: the statements before the annealing loop
SAStart(r) ==
    /\ Me(r).pc = "reorder"
    /\ Me(r).tree = None
    /\ \E sample_order \in Argsort(Me(r).cluster_id, cfg.num_samples) :
          cc' = [cc EXCEPT ![r] =
                    [@ EXCEPT !.sample_order = sample_order,
                              !.best_order = sample_order,
                              !.best_energy = energy(sample_order, Me(r).consensus_matrix),
                              !.start_energy = energy(sample_order, Me(r).consensus_matrix),
                              !.temp = <<1, 2>>, !.not_accepted = 0, !.last_best = 0,
                              !.sa_i = 1, !.pc = "sa"]]
    /\ UNCHANGED <<arrived, Ghosts, Others>>

\* a schedule whose ramp is not confined to the iterations below 25000
Temperature_RampAtAnyIteration(i, not_accepted, temp) ==
    LET ramped == IF i % 2000 = 0 /\ 10 * (i - not_accepted) < i
                  THEN RAdd(temp, ROne) ELSE temp
    IN  IF i % 25000 = 0 THEN RMul(ramped, <<9, 10>>) ELSE ramped

\* the temperature after the two schedule statements of iteration i:
\* `if not (i % 2000) and i < 25000: if ((i - not_accepted) / float(i)) < 0.1:
\* temp += 1` and `if not (i % 25000): temp = temp * 0.90`
Temperature(i, not_accepted, temp) ==
    LET ramped == IF i % 2000 = 0 /\ i < 25000 /\ 10 * (i - not_accepted) < i
                  THEN RAdd(temp, ROne) ELSE temp
    IN  IF i % 25000 = 0 THEN RMul(ramped, <<9, 10>>) ELSE ramped

\* one pass of the loop that takes every kept proposal as the best order
SAIter_BestIsCurrent(r) ==
    /\ Me(r).pc = "sa"
    /\ Me(r).sa_i < 4000000
    /\ Me(r).sa_i <= MaxSAIters
    /\ \E a, b \in Range0(cfg.num_samples), keep \in BOOLEAN :
        /\ a # b
        /\ LET i           == Me(r).sa_i
               last_energy == energy(Me(r).sample_order, Me(r).consensus_matrix)
               last_order  == Me(r).sample_order
               proposal    == Proposal(Me(r).sample_order, a, b)
               new_energy  == energy(proposal, Me(r).consensus_matrix)
               temp        == Temperature(i, Me(r).not_accepted, Me(r).temp)
               lower       == RLess(new_energy, last_energy)
               newbest     == ~lower /\ RLess(Me(r).best_energy, new_energy)
               last_best   == IF newbest THEN i ELSE Me(r).last_best
           IN  /\ (~lower => keep)
               /\ cc' = [cc EXCEPT ![r] =
                    [@ EXCEPT !.sample_order = IF keep THEN proposal ELSE last_order,
                              !.not_accepted = IF keep THEN @ ELSE @ + 1,
                              !.best_energy = IF keep THEN new_energy ELSE @,
                              !.best_order = IF keep THEN proposal ELSE @,
                              !.last_best = last_best,
                              !.temp = temp,
                              !.sa_i = i + 1,
                              !.pc = IF i - last_best > 100000 THEN "sa_break" ELSE "sa"]]
    /\ UNCHANGED <<arrived, Ghosts, Others>>

\* one pass of for i in xrange(1, 4000000); the draws of a and b are repeated
\* until a # b, and ran() decides whether a proposal of lower energy is kept
SAIter(r) ==
    /\ Me(r).pc = "sa"
    /\ Me(r).sa_i < 4000000
    /\ Me(r).sa_i <= MaxSAIters
    /\ \E a, b \in Range0(cfg.num_samples), keep \in BOOLEAN :
        /\ a # b
        /\ LET i           == Me(r).sa_i
               last_energy == energy(Me(r).sample_order, Me(r).consensus_matrix)
               last_order  == Me(r).sample_order
               proposal    == Proposal(Me(r).sample_order, a, b)
               new_energy  == energy(proposal, Me(r).consensus_matrix)
               temp        == Temperature(i, Me(r).not_accepted, Me(r).temp)
               lower       == RLess(new_energy, last_energy)
               newbest     == ~lower /\ RLess(Me(r).best_energy, new_energy)
               last_best   == IF newbest THEN i ELSE Me(r).last_best
           IN  /\ (~lower => keep)
               /\ cc' = [cc EXCEPT ![r] =
                    [@ EXCEPT !.sample_order = IF keep THEN proposal ELSE last_order,
                              !.not_accepted = IF keep THEN @ ELSE @ + 1,
                              !.best_energy = IF newbest THEN new_energy ELSE @,
                              !.best_order = IF newbest THEN proposal ELSE @,
                              !.last_best = last_best,
                              !.temp = temp,
                              !.sa_i = i + 1,
                              !.pc = IF i - last_best > 100000 THEN "sa_break" ELSE "sa"]]
    /\ UNCHANGED <<arrived, Ghosts, Others>>

\* the annealing loop is left; both axes are reordered by the best order
SAFinish(r) ==
    /\ \/ Me(r).pc = "sa_break"
       \/ Me(r).pc = "sa" /\ (Me(r).sa_i >= 4000000 \/ Me(r).sa_i > MaxSAIters)
    /\ cc' = [cc EXCEPT ![r] =
                [@ EXCEPT !.reorder_indices = Some(Me(r).best_order),
                          !.consensus_matrix =
                              Reordered(Me(r).consensus_matrix, Me(r).best_order,
                                        cfg.num_samples),
                          !.pc = "done"]]
    /\ UNCHANGED <<arrived, Ghosts, Others>>

\* CommonCluster.run_cluster after the ConsensusCluster is built:
\* clust_data._reset_clusters(); then __init__ goes on to the next K
RunClusterEnd(r) ==
    /\ Me(r).pc = "done"
    /\ IF Me(r).k_idx < Len(cfg.kvalues)
       THEN /\ cc' = [cc EXCEPT ![r] =
                        NewInstance(cfg, r, Me(r).k_idx + 1,
                                    reset_clusters(Me(r).cluster_id))]
            /\ g_clustcount' = ZeroMatrix(cfg.num_samples)
            /\ g_totalcount' = ZeroMatrix(cfg.num_samples)
            /\ g_round_done' = [k \in Range0(cfg.subsamples) |-> 0]
       ELSE /\ cc' = [cc EXCEPT ![r] = [@ EXCEPT !.cluster_id = reset_clusters(@),
                                                 !.pc = "finished"]]
            /\ UNCHANGED Ghosts
    /\ UNCHANGED <<arrived, Others>>

\* the workers run independently: one step of one rank at a time
Next ==
    \/ \E r \in Ranks : StartRound(r)
    \/ \E r \in Ranks : RunAlgorithm(r)
    \/ \E r \in Ranks : UpdSimilarity(r)
    \/ \E r \in Ranks : ResetClusters(r)
    \/ \E r \in Ranks : EndRound(r)
    \/ \E r \in Ranks : FinishRounds(r)
    \/ \E r \in Ranks : Barrier(r)
    \/ \E r \in Ranks : GatherMatrices(r)
    \/ \E r \in Ranks : GenConsensus(r)
    \/ \E r \in Ranks : HclusterConsensus(r)
    \/ \E r \in Ranks : ReorderTree(r)
    \/ \E r \in Ranks : SAStart(r)
    \/ \E r \in Ranks : SAIter(r)
    \/ \E r \in Ranks : SAFinish(r)
    \/ \E r \in Ranks : RunClusterEnd(r)

Spec == Init /\ [][Next]_vars

----------------------------------------------------------------------------
\* HierarchicalCluster on its own

HInit ==
    /\ \E data_matrix \in DataMatrices :
        /\ h_distance_matrix = gen_distance_matrix(data_matrix, Len(data_matrix))
        /\ h_datapoints = [s \in Range0(Len(data_matrix)) |-> None]
        /\ h_tree = [x \in 1 .. Len(data_matrix) |-> Leaf(x - 1)]
        /\ h_num_clusters \in 0 .. (Len(data_matrix) + 1)
    /\ h_linkage \in Linkages
    /\ h_pc = "loop"
    /\ h_merges = 0
    /\ h_assign_log = <<>>
    /\ pam = PIdle
    /\ CIdle
    /\ XIdle

\* while len(tree) > 1: one pass
HLoop ==
    /\ h_pc = "loop"
    /\ Len(h_tree) > 1
    /\ LET r == LoopBody(h_tree, h_datapoints, h_distance_matrix, h_linkage,
                         h_num_clusters)
       IN  /\ h_tree' = r.tree
           /\ h_datapoints' = r.datapoints
           /\ h_assign_log' = IF r.assigned THEN Append(h_assign_log, h_merges)
                              ELSE h_assign_log
    /\ h_merges' = h_merges + 1
    /\ UNCHANGED <<h_distance_matrix, h_num_clusters, h_linkage, h_pc, pam, cvars,
                   xvars>>

\* the loop ends; self.tree = self.tree[0]
HShed ==
    /\ h_pc = "loop"
    /\ Len(h_tree) <= 1
    /\ h_pc' = "done"
    /\ h_tree' = At(h_tree, 0)
    /\ UNCHANGED <<h_datapoints, h_distance_matrix, h_num_clusters, h_linkage,
                   h_merges, h_assign_log, pam, cvars, xvars>>

HNext == HLoop \/ HShed

SpecH == HInit /\ [][HNext]_vars

----------------------------------------------------------------------------
\* PAMCluster on its own

PInit ==
    /\ \E data_matrix \in OrderedDataMatrices :
       \E num_clusters \in 0 .. (Len(data_matrix) + 1) :
          LET num_samples == Len(data_matrix)
              distance_matrix == gen_distance_matrix(data_matrix, num_samples)
          IN  IF num_clusters = 0 \/ num_clusters > num_samples
              THEN pam = PRaise(distance_matrix, num_samples, num_clusters)
              ELSE \E sample \in Samples(num_samples, num_clusters) :
                      pam = PStart(distance_matrix, num_samples, num_clusters, sample)
    /\ HIdle
    /\ CIdle
    /\ XIdle

PWhile == pam.pc = "while" /\ pam' = PWhileStep(pam) /\ UNCHANGED <<hvars, cvars, xvars>>

PSlot == pam.pc = "slot" /\ pam' = PSlotStep(pam) /\ UNCHANGED <<hvars, cvars, xvars>>

PCand == pam.pc = "cand" /\ pam' = PCandStep(pam) /\ UNCHANGED <<hvars, cvars, xvars>>

PAssign == pam.pc = "assign" /\ pam' = PAssignStep(pam) /\ UNCHANGED <<hvars, cvars, xvars>>

PNext == PWhile \/ PSlot \/ PCand \/ PAssign

SpecPAM == PInit /\ [][PNext]_vars


----------------------------------------------------------------------------
\* KMeansCluster

\* centroids of one KMeansCluster instance
MaxCentroids == 3

\* a row of integers as a row of rationals (numpy float array)
RRow(row) == [x \in 1 .. Len(row) |-> Rat(row[x], 1)]

\* a*a - 2ab + b*b for two rationals: the square of their difference
RSqDiff(a, b) ==
    LET n == a[1] * b[2] - b[1] * a[2]
    IN  Rat(n * n, a[2] * b[2] * a[2] * b[2])

\* the distance function as far as min() uses it: distance.euclidean orders
\* the pairs as the sum of the squared differences does
SqEuclidean(a, b) == RSum([x \in 1 .. Len(a) |-> RSqDiff(a[x], b[x])])

\* the values random.random() is taken to return
RanValues == {<<0, 1>>, <<1, 2>>}

\* data_matrix.min(0)[i] and data_matrix.max(0)[i]
ColumnMin(data_matrix, i) == RMin([k \in 1 .. Len(data_matrix) |-> data_matrix[k][i]])

ColumnMax(data_matrix, i) == RMax([k \in 1 .. Len(data_matrix) |-> data_matrix[k][i]])

\* _gen_initial_centroids: the arrays it can return
gen_initial_centroids(data_matrix, num_clusters) ==
    LET vec_len == Len(data_matrix[1])
        value(ran, i) == RAdd(RMul(ran, RSub(ColumnMax(data_matrix, i),
                                             ColumnMin(data_matrix, i))),
                              ColumnMin(data_matrix, i))
    IN  {[j \in 1 .. num_clusters |-> [i \in 1 .. vec_len |-> value(r[j][i], i)]] :
            r \in [1 .. num_clusters -> [1 .. vec_len -> RanValues]]}

\* min([ (distance(centroids[j], point), j) for j in xrange(num_clusters) ])[1]
\* with the comparison reversed
NearestCentroid_Farthest(centroids, point) ==
    CHOOSE j \in Range0(Len(centroids)) :
        \A y \in Range0(Len(centroids)) :
            LET dj == SqEuclidean(At(centroids, j), point)
                dy == SqEuclidean(At(centroids, y), point)
            IN  RLess(dy, dj) \/ (dj = dy /\ j <= y)

\* min([ (distance(centroids[j], point), j) for j in xrange(num_clusters) ])[1]
NearestCentroid(centroids, point) ==
    CHOOSE j \in Range0(Len(centroids)) :
        \A y \in Range0(Len(centroids)) :
            LET dj == SqEuclidean(At(centroids, j), point)
                dy == SqEuclidean(At(centroids, y), point)
            IN  RLess(dj, dy) \/ (dj = dy /\ j <= y)

\* the ascending list of the elements of a set of sample indices
RECURSIVE Ascending(_)
Ascending(S) ==
    IF S = {} THEN <<>>
    ELSE LET lo == CHOOSE x \in S : \A y \in S : x <= y
         IN  <<lo>> \o Ascending(S \ {lo})

\* cluster_data_matrix[:,j].mean() for the samples of one cluster
ColumnMean(data_matrix, members, j) ==
    RDivInt(RSum([x \in 1 .. Len(members) |-> At(data_matrix, members[x])[j]]),
            Len(members))

\* the instance when _cluster_data reaches its while loop
KStart(data_matrix, num_clusters, centroids) ==
    [pc |-> "loop", data_matrix |-> data_matrix, num_samples |-> Len(data_matrix),
     num_clusters |-> num_clusters, vec_len |-> Len(data_matrix[1]),
     centroids |-> centroids, moved_flag |-> 1,
     cluster_ids |-> [j \in Range0(num_clusters) |-> <<>>],
     datapoints |-> [s \in Range0(Len(data_matrix)) |-> None],
     iterations |-> 0, first_sse |-> RZero]

\* the summed squared distance from every point to the centroid of the
\* cluster that cluster_ids puts it in
SSE(st) ==
    RSum([x \in 1 .. st.num_samples |->
        LET j == CHOOSE c \in Range0(st.num_clusters) :
                    (x - 1) \in Elems(st.cluster_ids[c])
        IN  SqEuclidean(At(st.centroids, j), st.data_matrix[x])])

\* one pass of while moved_flag: assign clusters, move centroids; min([])
\* raises ValueError when there is no centroid
KIterStep(st) ==
    IF st.num_clusters <= 0 THEN [st EXCEPT !.pc = "raised"]
    ELSE
    LET cluster_ids == [j \in Range0(st.num_clusters) |->
                          Ascending({i \in Range0(st.num_samples) :
                              NearestCentroid(st.centroids, At(st.data_matrix, i)) = j})]
        centroids   == [c \in 1 .. st.num_clusters |-> [j \in 1 .. st.vec_len |->
                          IF cluster_ids[c - 1] # <<>>
                          THEN ColumnMean(st.data_matrix, cluster_ids[c - 1], j)
                          ELSE st.centroids[c][j]]]
        moved       == [st EXCEPT !.cluster_ids = cluster_ids, !.centroids = centroids,
                                  !.moved_flag = IF centroids # st.centroids THEN 1 ELSE 0,
                                  !.iterations = @ + 1]
    IN  [moved EXCEPT !.first_sse = IF st.iterations = 0 THEN SSE(moved) ELSE @]

\* the labels numbered by the position of the cluster among the clusters
\* that have samples
KLabelStep_NumberedByKey(st) ==
    LET keys == {c \in Range0(st.num_clusters) : st.cluster_ids[c] # <<>>}
        position(c) == Cardinality({d \in keys : d < c})
    IN  [st EXCEPT !.datapoints = [s \in Range0(st.num_samples) |->
                    IF \E c \in keys : s \in Elems(st.cluster_ids[c])
                    THEN Some(position(CHOOSE c \in keys : s \in Elems(st.cluster_ids[c])))
                    ELSE st.datapoints[s]],
                   !.pc = "done"]

\* after the loop: assign cluster ids to datapoints
KLabelStep(st) ==
    [st EXCEPT !.datapoints = [s \in Range0(st.num_samples) |->
                    IF \E c \in Range0(st.num_clusters) : s \in Elems(st.cluster_ids[c])
                    THEN Some(CHOOSE c \in Range0(st.num_clusters) :
                                s \in Elems(st.cluster_ids[c]))
                    ELSE st.datapoints[s]],
               !.pc = "done"]

\* KMeansCluster(datapoints, data_matrix, num_clusters, distance_metric)
KInit ==
    /\ \E dm \in OrderedDataMatrices :
       \E num_clusters \in 0 .. MaxCentroids :
          LET data_matrix == [k \in 1 .. Len(dm) |-> RRow(dm[k])]
          IN  \E centroids \in gen_initial_centroids(data_matrix, num_clusters) :
                km = KStart(data_matrix, num_clusters, centroids)
    /\ som = [pc |-> "idle"]
    /\ gd = [pc |-> "idle"]
    /\ sched = [pc |-> "idle"]
    /\ HIdle
    /\ pam = PIdle
    /\ CIdle

KIter ==
    /\ km.pc = "loop"
    /\ km.moved_flag = 1
    /\ km' = KIterStep(km)
    /\ UNCHANGED <<hvars, pam, cvars, som, gd, sched>>

KLabel ==
    /\ km.pc = "loop"
    /\ km.moved_flag = 0
    /\ km' = KLabelStep(km)
    /\ UNCHANGED <<hvars, pam, cvars, som, gd, sched>>

KNext == KIter \/ KLabel

SpecKM == KInit /\ [][KNext]_vars

----------------------------------------------------------------------------
\* BaseCluster._gen_distance_matrix, one call of distance at a time

\* the distance functions handed to _gen_distance_matrix: two metrics and a
\* function that is neither symmetric nor zero on equal rows
Distances == {"euclidean", "cityblock", "skew"}

\* sum of |a[x] - b[x]|
RECURSIVE CityBlock(_, _)
CityBlock(a, b) ==
    IF a = <<>> THEN 0
    ELSE (IF a[1] >= b[1] THEN a[1] - b[1] ELSE b[1] - a[1]) + CityBlock(Tail(a), Tail(b))

\* distance(a, b) for the distance function of that name
Distance(name, a, b) ==
    CASE name = "euclidean" -> euclidean(a, b)
      [] name = "cityblock" -> Rat(CityBlock(a, b), 1)
      [] name = "skew"      -> Rat(2 * a[1] + b[1] + a[2] + 1, 1)

\* distance_matrix = numpy.zeros(...); the loops are about to start
GStart(data_matrix, distance) ==
    [pc |-> "loop", data_matrix |-> data_matrix, distance |-> distance,
     num_samples |-> Len(data_matrix), i |-> 0, j |-> 1,
     distance_matrix |-> RZeroMatrix(Len(data_matrix)),
     calls |-> <<>>, result |-> None]

\* the body of the inner loop: one upper-triangle entry
GInnerStep(st) ==
    LET k == st.i
        m == st.i + st.j
    IN  [st EXCEPT !.distance_matrix[k][m] =
                        Distance(st.distance, At(st.data_matrix, k), At(st.data_matrix, m)),
                   !.calls = Append(@, <<k, m>>),
                   !.j = @ + 1]

\* the inner loop is exhausted: next i
GOuterStep(st) == [st EXCEPT !.i = @ + 1, !.j = 1]

\* return distance_matrix, without the transpose
GReturnStep_NoTranspose(st) ==
    [st EXCEPT !.pc = "returned", !.result = Some(st.distance_matrix)]

\* return distance_matrix + distance_matrix.transpose()
GReturnStep(st) ==
    [st EXCEPT !.pc = "returned",
               !.result = Some(PlusTranspose(st.distance_matrix, st.num_samples))]

GInit ==
    /\ \E data_matrix \in DataMatrices : \E distance \in Distances :
          gd = GStart(data_matrix, distance)
    /\ km = [pc |-> "idle"]
    /\ som = [pc |-> "idle"]
    /\ sched = [pc |-> "idle"]
    /\ HIdle
    /\ pam = PIdle
    /\ CIdle

GInner ==
    /\ gd.pc = "loop"
    /\ gd.i < gd.num_samples
    /\ gd.j < gd.num_samples - gd.i
    /\ gd' = GInnerStep(gd)
    /\ UNCHANGED <<hvars, pam, cvars, km, som, sched>>

GOuter ==
    /\ gd.pc = "loop"
    /\ gd.i < gd.num_samples
    /\ gd.j >= gd.num_samples - gd.i
    /\ gd' = GOuterStep(gd)
    /\ UNCHANGED <<hvars, pam, cvars, km, som, sched>>

GReturn ==
    /\ gd.pc = "loop"
    /\ gd.i >= gd.num_samples
    /\ gd' = GReturnStep(gd)
    /\ UNCHANGED <<hvars, pam, cvars, km, som, sched>>

GNext == GInner \/ GOuter \/ GReturn

SpecGD == GInit /\ [][GNext]_vars

----------------------------------------------------------------------------
\* SOMCluster

\* sys.maxint of a 32-bit build
maxint == 2147483647

\* a float: finite with a value, infinite, or not a number
Fin(n) == <<"fin", n>>

Inf == <<"inf", 0>>

NaN == <<"nan", 0>>

\* a < b on floats: false whenever a NaN is involved
FLess(a, b) ==
    IF a[1] = "nan" \/ b[1] = "nan" THEN FALSE
    ELSE IF a[1] = "inf" THEN FALSE
    ELSE IF b[1] = "inf" THEN TRUE
    ELSE a[2] < b[2]

\* the node vectors are floats moved by exponentials of the epoch; the values
\* distance(nodes[i][j], data_matrix[k]) can take are drawn from this set
DistValues == {Fin(1), Fin(2), Inf, NaN}

\* num_clusters (hdim defaults to it), vdim, the samples and num_epochs
HdimValues == {0, 1, 2, 3}

VdimValues == {1, 2}

SOMSamples == {1, 2}

EpochValues == {1, 3}

\* the scan for the best matching unit from cell c of the grid on, cells in
\* the order of the nested loops over i and j
RECURSIVE ScanBMU(_, _, _, _, _)
ScanBMU(dists, vdim, hdim, c, bmu) ==
    IF c >= vdim * hdim THEN bmu
    ELSE ScanBMU(dists, vdim, hdim, c + 1,
                 IF FLess(dists[c], bmu[1]) THEN <<dists[c], c \div hdim, c % hdim>>
                 ELSE bmu)

\* b to the power e
RECURSIVE Pow(_, _)
Pow(b, e) == IF e = 0 THEN 1 ELSE b * Pow(b, e - 1)

\* int(new_radius) in epoch t, for radius = (hdim + vdim) / 3. and
\* new_radius = radius * e**(-t / t_const), t_const = num_epochs / log(radius):
\* the largest n with n <= radius ** ((num_epochs - t) / num_epochs)
RadInt(hdim, vdim, t, num_epochs) ==
    LET fits(n) == Pow(n, num_epochs) * Pow(3, num_epochs - t)
                        <= Pow(hdim + vdim, num_epochs - t)
    IN  CHOOSE n \in 0 .. (hdim + vdim) : fits(n) /\ ~fits(n + 1)

\* chessdists[(i, j, k, l)] of _memo_chessboard_dists
Chessboard(i, j, k, l) ==
    LET di == IF i >= k THEN i - k ELSE k - i
        dj == IF j >= l THEN j - l ELSE l - j
    IN  IF di >= dj THEN di ELSE dj

\* the nodes (i, j) of the two loops over xrange(min_i, max_i) and
\* xrange(min_j, max_j) around the best matching unit (y, x)
Box(y, x, rad_int, vdim, hdim) ==
    LET min_i == IF y > rad_int THEN y - rad_int - 1 ELSE 0
        min_j == IF x > rad_int THEN x - rad_int - 1 ELSE 0
        max_i == IF y + rad_int + 1 > vdim THEN vdim ELSE y + rad_int + 1
        max_j == IF x + rad_int + 1 > hdim THEN hdim ELSE x + rad_int + 1
    IN  (min_i .. (max_i - 1)) \X (min_j .. (max_j - 1))

\* raise ValueError, message
SRaise(st, message) ==
    [st EXCEPT !.pc = "raised",
               !.error = Some([type |-> "ValueError", message |-> message,
                               values |-> <<>>])]

\* the instance when SOMCluster.__init__ starts
SStart(num_samples, num_clusters, vdim, num_epochs) ==
    [pc |-> "init", num_samples |-> num_samples, num_clusters |-> num_clusters,
     hdim |-> num_clusters, vdim |-> vdim, num_epochs |-> num_epochs,
     t |-> 1, k |-> 0, bmu |-> <<Fin(maxint)>>, scanned |-> FALSE,
     any_finite |-> FALSE, epochs |-> 0,
     nodes |-> [c \in Range0(vdim * num_clusters) |-> 0],
     node_adjust |-> [c \in Range0(vdim * num_clusters) |-> 0],
     neighbourhood |-> {},
     datapoints |-> [s \in Range0(num_samples) |-> None], error |-> None]

\* __init__ up to the call of _train_data
SConstructStep(st) ==
    IF st.hdim < 2 \/ st.vdim < 2
    THEN SRaise(st, "Passed node array dimensions less than 2!")
    ELSE [st EXCEPT !.pc = "train"]

\* one sample of one epoch: the scan for the best matching unit, then either
\* the ValueError or the adjustment of the neighbourhood. The node vectors and
\* the accumulator are floats; nodes[c] and node_adjust[c] count the deltas
\* that went into node c = i * hdim + j.
SSampleStep(st, dists) ==
    LET bmu     == ScanBMU(dists, st.vdim, st.hdim, 0, <<Fin(maxint)>>)
        scanned == [st EXCEPT !.bmu = bmu, !.scanned = TRUE,
                              !.any_finite = \E c \in DOMAIN dists : dists[c][1] = "fin"]
    IN  IF Len(bmu) < 2
        THEN SRaise(scanned, "Distance from nodes to data matrix too large? Try lowering learn rate.")
        ELSE LET box == Box(bmu[2], bmu[3],
                            RadInt(st.hdim, st.vdim, st.t, st.num_epochs),
                            st.vdim, st.hdim)
             IN  [scanned EXCEPT !.k = @ + 1, !.neighbourhood = box,
                                 !.node_adjust = [c \in DOMAIN @ |->
                                     IF <<c \div st.hdim, c % st.hdim>> \in box
                                     THEN @[c] + 1 ELSE @[c]]]

\* the end of an epoch: nodes += node_adjust; node_adjust.fill(0)
SEpochStep(st) ==
    [st EXCEPT !.t = @ + 1, !.k = 0, !.epochs = @ + 1,
               !.nodes = [c \in DOMAIN @ |-> @[c] + st.node_adjust[c]],
               !.node_adjust = [c \in DOMAIN @ |-> 0]]

\* _assign_clusters: matches[s] is the grid cell of sample s, order the
\* position of each cell among the keys of the dict clusters
SAssignStep(st, matches, order) ==
    [st EXCEPT !.pc = "done",
               !.datapoints = [s \in Range0(st.num_samples) |-> Some(order[matches[s]])]]

SInit ==
    /\ \E num_samples \in SOMSamples, num_clusters \in HdimValues,
          vdim \in VdimValues, num_epochs \in EpochValues :
          som = SStart(num_samples, num_clusters, vdim, num_epochs)
    /\ km = [pc |-> "idle"]
    /\ gd = [pc |-> "idle"]
    /\ sched = [pc |-> "idle"]
    /\ HIdle
    /\ pam = PIdle
    /\ CIdle

SConstruct ==
    /\ som.pc = "init"
    /\ som' = SConstructStep(som)
    /\ UNCHANGED <<hvars, pam, cvars, km, gd, sched>>

SSample ==
    /\ som.pc = "train"
    /\ som.t < som.num_epochs
    /\ som.k < som.num_samples
    /\ \E dists \in [Range0(som.vdim * som.hdim) -> DistValues] :
          som' = SSampleStep(som, dists)
    /\ UNCHANGED <<hvars, pam, cvars, km, gd, sched>>

SEpoch ==
    /\ som.pc = "train"
    /\ som.t < som.num_epochs
    /\ som.k >= som.num_samples
    /\ som' = SEpochStep(som)
    /\ UNCHANGED <<hvars, pam, cvars, km, gd, sched>>

SAssign ==
    /\ som.pc = "train"
    /\ som.t >= som.num_epochs
    /\ \E matches \in [Range0(som.num_samples) -> Range0(som.vdim * som.hdim)] :
       LET keys == {matches[s] : s \in Range0(som.num_samples)}
       IN  \E order \in [keys -> Range0(Cardinality(keys))] :
              /\ \A a, b \in keys : a # b => order[a] # order[b]
              /\ som' = SAssignStep(som, matches, order)
    /\ UNCHANGED <<hvars, pam, cvars, km, gd, sched>>

SNext == SConstruct \/ SSample \/ SEpoch \/ SAssign

SpecSOM == SInit /\ [][SNext]_vars

----------------------------------------------------------------------------
\* The temperature schedule of the annealing loop on its own: the loop of
\* reorder_consensus with the orders and energies left out.  Whether an
\* iteration ends in `not_accepted += 1` is a free choice here.

\* Bound: the last iteration of the loop that is followed
MaxSchedule == 52000

\* the first iteration from i on at which `not (i % 2000)` or
\* `not (i % 25000)` is true
NextTest(i) ==
    LET a == ((i + 1999) \div 2000) * 2000
        b == ((i + 24999) \div 25000) * 25000
    IN  IF a < b THEN a ELSE b

RECURSIVE Passes(_, _, _, _)
\* temp after the schedule statements of the iterations lo..hi, run in
\* order; none of these iterations reads not_accepted when neither test of
\* the schedule is true in it
Passes(lo, hi, not_accepted, temp) ==
    IF lo > hi THEN temp
    ELSE IF lo = hi THEN Temperature(lo, not_accepted, temp)
    ELSE LET mid  == (lo + hi) \div 2
             half == Passes(lo, mid, not_accepted, temp)
         IN  IF half = temp THEN Passes(mid + 1, hi, not_accepted, temp)
             ELSE Passes(mid + 1, hi, not_accepted, half)

\* how many of the iterations st.i..c-1 end in `not_accepted += 1`: none;
\* all, while every iteration so far has; or, while none has so far, as many
\* as put the acceptance rate of iteration c at or just under 0.1
RejectChoices(st, c) ==
    {d \in 0 .. (c - st.i) :
        \/ d = 0
        \/ d = c - st.i /\ st.not_accepted = st.i - 1
        \/ st.not_accepted = 0 /\ 10 * d \in {9 * c, 9 * c + 10}}

\* the statements before the loop: temp = 0.5, not_accepted = 0, i = 1
SchedStart == [pc |-> "loop", i |-> 1, not_accepted |-> 0, temp |-> <<1, 2>>]

\* the iterations st.i..c-1 of the loop, of which `rejected` end in
\* `not_accepted += 1`; c is the next iteration in which a test of the
\* schedule is true
SchedPassStep(st, rejected) ==
    LET c == NextTest(st.i)
    IN  [st EXCEPT !.i = c,
                   !.not_accepted = @ + rejected,
                   !.temp = Passes(st.i, c - 1, st.not_accepted, st.temp)]

\* one iteration of the loop
SchedIterStep(st, reject) ==
    [st EXCEPT !.i = @ + 1,
               !.not_accepted = IF reject THEN @ + 1 ELSE @,
               !.temp = Temperature(st.i, st.not_accepted, st.temp)]

SchedInit ==
    /\ HIdle
    /\ pam = PIdle
    /\ CIdle
    /\ km = [pc |-> "idle"]
    /\ som = [pc |-> "idle"]
    /\ gd = [pc |-> "idle"]
    /\ sched = SchedStart

SchedPass ==
    /\ sched.pc = "loop"
    /\ sched.i < NextTest(sched.i)
    /\ NextTest(sched.i) < 4000000
    /\ NextTest(sched.i) <= MaxSchedule
    /\ \E rejected \in RejectChoices(sched, NextTest(sched.i)) :
          sched' = SchedPassStep(sched, rejected)
    /\ UNCHANGED <<hvars, pam, cvars, km, som, gd>>

SchedIter ==
    /\ sched.pc = "loop"
    /\ sched.i = NextTest(sched.i)
    /\ sched.i < 4000000
    /\ \E reject \in BOOLEAN : sched' = SchedIterStep(sched, reject)
    /\ UNCHANGED <<hvars, pam, cvars, km, som, gd>>

\* the loop is followed no further
SchedEnd ==
    /\ sched.pc = "loop"
    /\ sched.i < NextTest(sched.i)
    /\ (NextTest(sched.i) >= 4000000 \/ NextTest(sched.i) > MaxSchedule)
    /\ sched' = [sched EXCEPT !.pc = "done"]
    /\ UNCHANGED <<hvars, pam, cvars, km, som, gd>>

SchedNext ==
    \/ SchedPass
    \/ SchedIter
    \/ SchedEnd

SpecSched == SchedInit /\ [][SchedNext]_vars

----------------------------------------------------------------------------
\* Properties of ConsensusCluster

Pairs == {p \in Range0(cfg.num_samples) \X Range0(cfg.num_samples) : p[1] < p[2]}

\* pc values at which the consensus matrix is built and not yet reordered
Built == {"hcluster", "reorder", "sa", "sa_break"}

\* pc values at which the lists of count matrices are complete
Reduced == {"consensus"} \cup Built \cup {"done", "finished"}

\* C1: the counter update after a run adds exactly 1 to totalCount[i][j] for
\* every pair i < j of samples that both carry a label, adds exactly 1 to
\* clusterCount[i][j] iff moreover the two labels are equal, and leaves both
\* counters of every pair with a null label unchanged.
C1_UpdCountsLabelledPairs ==
    [][\A r \in Ranks :
        (cc[r].pc = "upd" /\ cc'[r].pc = "reset") =>
            \A p \in Pairs :
                LET k_id == cc[r].cluster_id[p[1]]
                    m_id == cc[r].cluster_id[p[2]]
                    dt   == cc'[r].sim_matrix_totalcount[p[1]][p[2]]
                                - cc[r].sim_matrix_totalcount[p[1]][p[2]]
                    dc   == cc'[r].sim_matrix_clustcount[p[1]][p[2]]
                                - cc[r].sim_matrix_clustcount[p[1]][p[2]]
                IN  IF k_id # None /\ m_id # None
                    THEN dt = 1 /\ dc = (IF k_id = m_id THEN 1 ELSE 0)
                    ELSE dt = 0 /\ dc = 0]_vars

C1_Witness ==
    \E r \in Ranks : \E i, j, k \in Range0(cfg.num_samples) :
        /\ cc[r].pc = "reset"
        /\ i < j
        /\ cc[r].cluster_id[i] # None
        /\ cc[r].cluster_id[i] = cc[r].cluster_id[j]
        /\ cc[r].cluster_id[k] = None
        /\ cc[r].sim_matrix_clustcount[i][j] = 1
        /\ cc[r].sim_matrix_totalcount[i][j] = 1
        /\ \A p \in Pairs : k \in {p[1], p[2]} => cc[r].sim_matrix_totalcount[p[1]][p[2]] = 0

Lo(i, j) == IF i < j THEN i ELSE j

Hi(i, j) == IF i < j THEN j ELSE i

\* C2: off the diagonal, a consensus entry is clusterCount/totalCount of the
\* summed counters when totalCount > 0 and the ratio is not below the
\* threshold, and 0 otherwise; every entry is in [0,1], every entry below the
\* threshold is 0, and the matrix is symmetric.
C2_ConsensusEntries ==
    \A r \in Ranks :
        LET n == cfg.num_samples
            C == MatSum(cc[r].clustcount_matrices, n)
            T == MatSum(cc[r].totalcount_matrices, n)
            M == cc[r].consensus_matrix
        IN  /\ cc[r].pc \in Built =>
                \A i, j \in Range0(n) : i # j =>
                    M[i][j] = IF T[Lo(i, j)][Hi(i, j)] > 0
                                 /\ ~RLess(Rat(C[Lo(i, j)][Hi(i, j)], T[Lo(i, j)][Hi(i, j)]),
                                           cfg.matrix_thresh)
                              THEN Rat(C[Lo(i, j)][Hi(i, j)], T[Lo(i, j)][Hi(i, j)])
                              ELSE RZero
            /\ cc[r].pc \in Built \cup {"done", "finished"} =>
                \A i, j \in Range0(n) :
                    /\ ~RLess(M[i][j], RZero)
                    /\ ~RLess(ROne, M[i][j])
                    /\ RLess(M[i][j], cfg.matrix_thresh) => M[i][j] = RZero
                    /\ M[i][j] = M[j][i]

C2_Witness ==
    \E r \in Ranks : \E p, q \in Pairs :
        /\ cc[r].pc = "hcluster"
        /\ cfg.matrix_thresh = <<2, 3>>
        /\ MatSum(cc[r].clustcount_matrices, cfg.num_samples)[p[1]][p[2]] = 1
        /\ MatSum(cc[r].totalcount_matrices, cfg.num_samples)[p[1]][p[2]] = 2
        /\ cc[r].consensus_matrix[p[1]][p[2]] = RZero
        /\ cc[r].consensus_matrix[q[2]][q[1]] = ROne

\* C3: the count matrices the consensus matrix is built from sum to the counts
\* of all runs of all workers, each round having been run exactly once; all
\* workers hold the same lists; without MPI the list is the worker's own
\* matrix, counted over the whole range of rounds.
C3_ReducedCountsAreTheSumOfAllRounds ==
    \A r \in Ranks : cc[r].pc \in Reduced =>
        /\ MatSum(cc[r].clustcount_matrices, cfg.num_samples) = g_clustcount
        /\ MatSum(cc[r].totalcount_matrices, cfg.num_samples) = g_totalcount
        /\ \A k \in Range0(cfg.subsamples) : g_round_done[k] = 1
        /\ \A q \in Ranks : cc[q].pc \in Reduced =>
                /\ cc[q].clustcount_matrices = cc[r].clustcount_matrices
                /\ cc[q].totalcount_matrices = cc[r].totalcount_matrices
        /\ ~cfg.MPI_ENABLED =>
                /\ cc[r].clustcount_matrices = <<cc[r].sim_matrix_clustcount>>
                /\ cc[r].totalcount_matrices = <<cc[r].sim_matrix_totalcount>>
                /\ cc[r].local_subsamples = [x \in 1 .. cfg.subsamples |-> x - 1]

C3_Witness ==
    /\ cfg.MPI_ENABLED
    /\ cfg.size = 2
    /\ cc[0].pc = "hcluster"
    /\ cc[1].pc = "hcluster"
    /\ cc[0].sim_matrix_clustcount # cc[1].sim_matrix_clustcount
    /\ Len(cc[0].clustcount_matrices) = 2
    /\ \E p \in Pairs : g_clustcount[p[1]][p[2]] = 1 /\ g_totalcount[p[1]][p[2]] = 2

\* pc values inside the loop over the rounds
InRounds == {"round", "run", "upd", "reset"}

\* pc values after mpi.barrier() has returned
AfterBarrier == {"gather"} \cup Reduced

\* the steps of __init__ around the barrier, from the loop over the rounds
\* to the gather, without the call of the algorithm
OwnStep(r) ==
    \/ StartRound(r)
    \/ UpdSimilarity(r)
    \/ ResetClusters(r)
    \/ EndRound(r)
    \/ FinishRounds(r)
    \/ GatherMatrices(r)

\* C4: under MPI a worker is past the barrier (at the gather, at
\* gen_consensus_matrix or later) only when every worker has completed all the
\* rounds of its slice and called the barrier; a worker at the barrier goes on
\* exactly when all have called it, and at its other steps from the loop over
\* the rounds to the gather a worker never waits for another.
C4_BarrierSeparatesRoundsFromGather ==
    cfg.MPI_ENABLED =>
        \A r \in Ranks :
            /\ cc[r].pc \in AfterBarrier =>
                \A q \in Ranks :
                    /\ cc[q].pc \notin InRounds
                    /\ cc[q].i > Len(cc[q].local_subsamples)
                    /\ q \in arrived
            /\ cc[r].pc = "barrier" =>
                /\ r \in arrived
                /\ cc[r].i > Len(cc[r].local_subsamples)
                /\ (ENABLED Barrier(r)) <=> (\A q \in Ranks : cc[q].pc \notin InRounds)
            /\ (\/ cc[r].pc \in {"round", "upd", "reset", "gather"}
                \/ cc[r].pc = "run"
                      /\ cc[r].run_idx >= Len(Runs(cfg.clustering_algs, cfg.linkages)))
                  => ENABLED OwnStep(r)

C4_Witness ==
    /\ cfg.MPI_ENABLED
    /\ cfg.size = 2
    /\ cc[0].pc = "gather"
    /\ cc[1].pc = "barrier"
    /\ cc[0].i = 2
    /\ cc[1].i = 2
    /\ \E p \in Pairs : cc[0].sim_matrix_totalcount[p[1]][p[2]] = 1
    /\ \E p \in Pairs : cc[1].sim_matrix_totalcount[p[1]][p[2]] = 1

\* C5: every sample's label is null when a round begins and when a base
\* algorithm is about to run, in every ConsensusCluster instance of the run;
\* the labels counted by an update are those of samples of the round's
\* dataset.
C5_LabelsNullBeforeEveryRun ==
    \A r \in Ranks :
        /\ cc[r].pc \in {"round", "run"} =>
                \A s \in Range0(cfg.num_samples) : cc[r].cluster_id[s] = None
        /\ cc[r].pc = "upd" =>
                \A s \in Range0(cfg.num_samples) :
                    cc[r].cluster_id[s] # None =>
                        \E x \in 1 .. Len(cc[r].dataset) : cc[r].dataset[x] = s

C5_Witness ==
    \E r \in Ranks :
        /\ cc[r].pc = "run"
        /\ cc[r].k_idx = 2
        /\ cc[r].i = 2
        /\ cc[r].run_idx = 1
        /\ \E p \in Pairs : cc[r].sim_matrix_totalcount[p[1]][p[2]] = 3
        /\ \A s \in Range0(cfg.num_samples) : cc[r].cluster_id[s] = None

IsPermutation(p, n) ==
    /\ Len(p) = n
    /\ \A s \in Range0(n) : \E x \in 1 .. n : p[x] = s

Entries(matrix, n, v) == {e \in Range0(n) \X Range0(n) : matrix[e[1]][e[2]] = v}

AllEntries(matrix, n) == [x \in 1 .. (n * n) |-> matrix[(x - 1) \div n][(x - 1) % n]]

\* C6: reordering takes a permutation p of the samples and leaves
\* new[i][j] = old[p[i]][p[j]]: the same entries, with the same sum, and a
\* symmetric matrix stays symmetric.
C6_ReorderIsASimultaneousPermutation ==
    [][\A r \in Ranks :
        (cc[r].pc \in {"reorder", "sa", "sa_break"} /\ cc'[r].pc = "done") =>
            LET n   == cfg.num_samples
                old == cc[r].consensus_matrix
                new == cc'[r].consensus_matrix
                p   == cc'[r].reorder_indices[1]
            IN  /\ cc'[r].reorder_indices # None
                /\ IsPermutation(p, n)
                /\ \A i, j \in Range0(n) : new[i][j] = old[At(p, i)][At(p, j)]
                /\ \A i, j \in Range0(n) :
                      Cardinality(Entries(new, n, old[i][j]))
                          = Cardinality(Entries(old, n, old[i][j]))
                /\ RSum(AllEntries(new, n)) = RSum(AllEntries(old, n))
                /\ \A i, j \in Range0(n) :
                      Cardinality({m \in Range0(n) : new[i][m] = old[At(p, i)][j]})
                          = Cardinality({m \in Range0(n) : old[At(p, i)][m] = old[At(p, i)][j]})
                /\ \A i, j \in Range0(n) :
                      Cardinality({k \in Range0(n) : new[k][i] = old[j][At(p, i)]})
                          = Cardinality({k \in Range0(n) : old[k][At(p, i)] = old[j][At(p, i)]})
                /\ (\A i, j \in Range0(n) : old[i][j] = old[j][i])
                      => (\A i, j \in Range0(n) : new[i][j] = new[j][i])]_vars

C6_Witness ==
    \E r \in Ranks : \E i \in Range0(cfg.num_samples) :
        /\ cc[r].pc = "done"
        /\ cc[r].reorder_indices # None
        /\ At(cc[r].reorder_indices[1], At(cc[r].reorder_indices[1], i)) # i
        /\ \E p, q \in Pairs :
              cc[r].consensus_matrix[p[1]][p[2]] # cc[r].consensus_matrix[q[1]][q[2]]

\* C7: once a ConsensusCluster is built for a K between 1 and the number of
\* samples, every sample carries a label, and the tree is set exactly when
\* the final algorithm is Hierarchical.
C7_BuiltInstanceIsLabelled ==
    \A r \in Ranks :
        (cc[r].pc = "done" /\ cc[r].num_clusters \in 1 .. cfg.num_samples) =>
            /\ \A s \in Range0(cfg.num_samples) : cc[r].cluster_id[s] # None
            /\ cc[r].tree # None <=> cfg.final_alg = "Hierarchical"

\* the runs of base algorithms rank r has made and counted so far
RunsCounted(r) ==
    (cc[r].i - 1) * Len(Runs(cfg.clustering_algs, cfg.linkages))
        + cc[r].run_idx + (IF cc[r].pc = "reset" THEN 1 ELSE 0)

\* every run of the configuration labels every sample: no subsampling, and
\* no hierarchical run with a K for which it leaves the labels null
EveryRunLabelsAll(r) ==
    /\ cfg.subsample_fraction = None
    /\ \A x \in 1 .. Len(cfg.clustering_algs) :
          cfg.clustering_algs[x] = "Hierarchical"
              => cc[r].num_clusters \in 2 .. cfg.num_samples

\* C25: at any time, for every i < j, 0 <= clusterCount[i][j] <=
\* totalCount[i][j] <= the number of runs made so far, the diagonal and the
\* lower triangle of both counter matrices are 0, and totalCount[i][j] is
\* the number of runs when nothing is subsampled and every run labels every
\* sample.
C25_CountersAreBoundedByTheRuns ==
    \A r \in Ranks :
        cc[r].pc # "raised" =>
            /\ \A p \in Pairs :
                  /\ 0 <= cc[r].sim_matrix_clustcount[p[1]][p[2]]
                  /\ cc[r].sim_matrix_clustcount[p[1]][p[2]]
                        <= cc[r].sim_matrix_totalcount[p[1]][p[2]]
                  /\ cc[r].sim_matrix_totalcount[p[1]][p[2]] <= RunsCounted(r)
                  /\ EveryRunLabelsAll(r) =>
                        cc[r].sim_matrix_totalcount[p[1]][p[2]] = RunsCounted(r)
            /\ \A k, m \in Range0(cfg.num_samples) :
                  k >= m => /\ cc[r].sim_matrix_clustcount[k][m] = 0
                            /\ cc[r].sim_matrix_totalcount[k][m] = 0

C25_Witness ==
    \E r \in Ranks : \E p, q \in Pairs :
        /\ cc[r].pc = "consensus"
        /\ RunsCounted(r) = 2
        /\ EveryRunLabelsAll(r)
        /\ cc[r].sim_matrix_totalcount[p[1]][p[2]] = 2
        /\ cc[r].sim_matrix_clustcount[p[1]][p[2]] = 1
        /\ cc[r].sim_matrix_clustcount[q[1]][q[2]] = 0
----------------------------------------------------------------------------
\* Properties of HierarchicalCluster

HSamples == DOMAIN h_datapoints

\* C8: run with K = N, N >= 2, HierarchicalCluster assigns the labels before
\* any merge (the one call of _assign_clusters happens at merge count 0) and
\* the N labels are non-null and pairwise distinct.
C8_KEqualsN_DistinctLabels ==
    (h_pc \in {"loop", "done"} /\ h_merges >= 1
        /\ Cardinality(HSamples) >= 2 /\ h_num_clusters = Cardinality(HSamples))
    => /\ h_assign_log = <<0>>
       /\ \A s \in HSamples : h_datapoints[s] # None
       /\ \A s, t \in HSamples : s # t => h_datapoints[s] # h_datapoints[t]

C8_Witness ==
    /\ h_pc = "done"
    /\ Cardinality(HSamples) = 3
    /\ h_num_clusters = 3
    /\ h_merges = 2
    /\ {h_datapoints[s] : s \in HSamples} = {Some(0), Some(1), Some(2)}

\* C9: run with K = 1, HierarchicalCluster ends with every label non-null and
\* all labels equal, for every N >= 1.
C9_KEqualsOne_OneSharedLabel ==
    (h_pc = "done" /\ h_num_clusters = 1)
    => /\ \A s \in HSamples : h_datapoints[s] # None
       /\ \A s, t \in HSamples : h_datapoints[s] = h_datapoints[t]

----------------------------------------------------------------------------
\* Properties of PAMCluster

\* the points (0,0), (0,1), (10,0), (10,1)
FourPoints == << <<0, 0>>, <<0, 1>>, <<10, 0>>, <<10, 1>> >>

OnFourPoints ==
    /\ pam.pc # "idle"
    /\ pam.num_samples = 4
    /\ pam.num_clusters = 2
    /\ pam.distance_matrix = gen_distance_matrix(FourPoints, 4)

\* C10: on the four points with K = 2, from every pair of distinct initial
\* medoids, the converged medoid set holds one of {0,1} and one of {2,3}, and
\* the labels group the samples as {0,1} / {2,3}.
C10_FourPoints_Partition ==
    /\ (OnFourPoints /\ pam.pc \in {"assign", "done"})
       => /\ Cardinality(Elems(pam.medoids) \cap {0, 1}) = 1
          /\ Cardinality(Elems(pam.medoids) \cap {2, 3}) = 1
    /\ (OnFourPoints /\ pam.pc = "done")
       => /\ \A s \in 0 .. 3 : pam.datapoints[s] # None
          /\ pam.datapoints[0] = pam.datapoints[1]
          /\ pam.datapoints[2] = pam.datapoints[3]
          /\ pam.datapoints[0] # pam.datapoints[2]

C10_Witness ==
    /\ OnFourPoints
    /\ pam.pc = "done"
    /\ pam.sample = <<3, 2>>
    /\ Elems(pam.medoids) # {2, 3}
    /\ pam.datapoints[0] = pam.datapoints[1]

----------------------------------------------------------------------------
\* More properties of HierarchicalCluster

\* the position in the list of active nodes of the node that holds sample s
ActivePosition(tree, s) ==
    CHOOSE i \in Range0(Len(tree)) : s \in Elems(Sequence(At(tree, i)))

\* 2 <= K <= N
ValidK == h_num_clusters \in 2 .. Cardinality(HSamples)

\* C19: with 2 <= K <= N the labels are assigned exactly once, in the pass
\* that starts with K active nodes: every sample gets the position of its
\* active node, so two samples share a label iff they are under the same
\* active node and exactly K distinct labels exist; every other pass leaves
\* all labels unchanged.
C19_LabelsAreAOneTimeSnapshot ==
    [][(ValidK /\ h_pc = "loop" /\ h_pc' = "loop") =>
        IF Len(h_tree) = h_num_clusters
        THEN /\ h_assign_log = <<>>
             /\ h_assign_log' = <<h_merges>>
             /\ \A s \in HSamples :
                   h_datapoints'[s] = Some(ActivePosition(h_tree, s))
             /\ \A s, t \in HSamples :
                   h_datapoints'[s] = h_datapoints'[t]
                       <=> ActivePosition(h_tree, s) = ActivePosition(h_tree, t)
             /\ {h_datapoints'[s] : s \in HSamples}
                   = {Some(i) : i \in Range0(h_num_clusters)}
        ELSE /\ h_datapoints' = h_datapoints
             /\ h_assign_log' = h_assign_log
             /\ Len(h_tree) > h_num_clusters =>
                   \A s \in HSamples : h_datapoints[s] = None
             /\ Len(h_tree) < h_num_clusters => Len(h_assign_log) = 1]_vars

C19_Witness ==
    /\ h_pc = "done"
    /\ Cardinality(HSamples) = 4
    /\ h_num_clusters = 3
    /\ h_assign_log = <<1>>
    /\ h_merges = 3
    /\ {h_datapoints[s] : s \in HSamples} = {Some(0), Some(1), Some(2)}

\* the pairs k < m of positions in a list of active nodes
ActivePairs(tree) == {p \in Range0(Len(tree)) \X Range0(Len(tree)) : p[1] < p[2]}

\* the linkage distance of the active nodes at positions p[1] and p[2]
PairDistance(tree, p) ==
    Linkage(h_linkage, Block(h_distance_matrix, Sequence(At(tree, p[1])),
                             Sequence(At(tree, p[2]))))

\* the first pair of the ascending scan among the pairs of minimal distance
FirstClosestPair(tree) ==
    CHOOSE p \in ActivePairs(tree) :
        \A q \in ActivePairs(tree) :
            \/ RLess(PairDistance(tree, p), PairDistance(tree, q))
            \/ /\ PairDistance(tree, p) = PairDistance(tree, q)
               /\ (p[1] < q[1] \/ (p[1] = q[1] /\ p[2] <= q[2]))

\* C20: every merge joins the pair of active clusters of globally minimal
\* linkage distance, the first such pair of the ascending nested scan when
\* several are minimal; the new node is appended with that distance as its
\* merge distance and the two merged nodes leave the list.
C20_MergeTakesFirstClosestPair ==
    [][(h_pc = "loop" /\ h_pc' = "loop") =>
        LET p == FirstClosestPair(h_tree)
        IN  /\ \A q \in ActivePairs(h_tree) :
                  ~RLess(PairDistance(h_tree, q), PairDistance(h_tree, p))
            /\ h_tree'[Len(h_tree')]
                  = Node(At(h_tree, p[1]), At(h_tree, p[2]), PairDistance(h_tree, p))
            /\ h_tree' = Append(DelAt(DelAt(h_tree, p[2]), p[1]), h_tree'[Len(h_tree')])]_vars

C20_Witness ==
    /\ h_pc = "loop"
    /\ h_merges = 1
    /\ Cardinality(HSamples) = 3
    /\ h_distance_matrix[0][2] = h_distance_matrix[1][2]
    /\ RLess(h_distance_matrix[0][2], h_distance_matrix[0][1])
    /\ h_tree = <<Leaf(1), Node(Leaf(0), Leaf(2), h_distance_matrix[0][2])>>

\* the leaf indices under the active nodes, list after list
RECURSIVE ActiveLeaves(_)
ActiveLeaves(tree) ==
    IF tree = <<>> THEN <<>>
    ELSE Sequence(Head(tree)) \o ActiveLeaves(Tail(tree))

\* C21: every merge takes two nodes off the active list and appends one node
\* whose leaves are the leaves of the two, so the leaves of the active nodes
\* are always every sample index exactly once, the list gets shorter by one
\* per merge, and the run ends after N-1 merges with one root whose leaf
\* sequence holds every sample index exactly once.
C21_MergesKeepAPartition ==
    LET N == Cardinality(HSamples)
    IN  /\ h_pc = "loop" =>
              /\ Len(h_tree) = N - h_merges
              /\ IsPermutation(ActiveLeaves(h_tree), N)
              /\ h_merges >= 1 =>
                    LET new == h_tree[Len(h_tree)]
                    IN  /\ new.value = None
                        /\ Sequence(new) = Sequence(new.left[1]) \o Sequence(new.right[1])
                        /\ \A x \in 1 .. (Len(h_tree) - 1) :
                              Elems(Sequence(h_tree[x])) \cap Elems(Sequence(new)) = {}
        /\ h_pc = "done" =>
              /\ h_merges = N - 1
              /\ IsPermutation(Sequence(h_tree), N)

C21_Witness ==
    /\ h_pc = "done"
    /\ Cardinality(HSamples) = 4
    /\ h_merges = 3
    /\ Sequence(h_tree) = <<1, 2, 0, 3>>

\* the total cost of a medoid list of the PAMCluster instance
PamCost(st, medoids) == Cost(medoids, st.distance_matrix, st.num_samples)

\* C11: during the search of PAMCluster the total cost of the current medoids
\* never increases, it strictly decreases whenever the medoids change (an
\* adopted swap), old_cost is the cost of the current medoids, and the cost
\* of the converged medoids is at most the cost of the initial random draw.
C11_CostNeverIncreases ==
    [][(pam.pc \in {"while", "slot", "cand", "assign"}) =>
        /\ ~RLess(PamCost(pam, pam.medoids), PamCost(pam', pam'.medoids))
        /\ pam'.medoids # pam.medoids =>
              RLess(PamCost(pam', pam'.medoids), PamCost(pam, pam.medoids))
        /\ pam'.old_cost = PamCost(pam', pam'.medoids)
        /\ pam'.pc \in {"assign", "done"} =>
              ~RLess(PamCost(pam, pam.sample), PamCost(pam', pam'.medoids))]_vars

C11_Witness ==
    /\ pam.pc = "done"
    /\ pam.num_clusters = 2
    /\ pam.medoids # pam.sample
    /\ RLess(PamCost(pam, pam.medoids), PamCost(pam, pam.sample))

\* C12: in KMeansCluster the summed squared distance from every point to its
\* assigned centroid, taken after an iteration (assign step, then move step),
\* is not larger after the next iteration.
C12_SSENonIncreasing ==
    [][(km.pc = "loop" /\ km.iterations >= 1 /\ km'.pc = "loop")
        => ~RLess(SSE(km), SSE(km'))]_vars

C12_Witness ==
    /\ km.pc = "done"
    /\ km.iterations >= 3
    /\ km.num_clusters = 2
    /\ km.cluster_ids[0] # <<>>
    /\ km.cluster_ids[1] # <<>>
    /\ RLess(SSE(km), km.first_sse)

\* C13: for any distance function the matrix _gen_distance_matrix returns is
\* N by N, symmetric, has a zero diagonal, its entry [i][j] for i < j is the
\* distance function applied to row i and row j, and the distance function
\* was evaluated exactly N(N-1)/2 times, once for every pair i < j.
C13_GenDistanceMatrix ==
    gd.pc = "returned" =>
        LET N == gd.num_samples
            M == gd.result[1]
        IN  /\ DOMAIN M = Range0(N)
            /\ \A i \in Range0(N) : DOMAIN M[i] = Range0(N)
            /\ \A i, j \in Range0(N) : M[i][j] = M[j][i]
            /\ \A i \in Range0(N) : M[i][i] = RZero
            /\ \A i, j \in Range0(N) : i < j =>
                  M[i][j] = Distance(gd.distance, At(gd.data_matrix, i), At(gd.data_matrix, j))
            /\ 2 * Len(gd.calls) = N * (N - 1)
            /\ Elems(gd.calls) = {<<i, j>> : i, j \in Range0(N)} \cap
                                 {p \in Range0(N) \X Range0(N) : p[1] < p[2]}
            /\ gd.distance = "euclidean" =>
                  M = gen_distance_matrix(gd.data_matrix, N)

C13_Witness ==
    /\ gd.pc = "returned"
    /\ gd.num_samples = 3
    /\ gd.distance = "skew"
    /\ Len(gd.calls) = 3
    /\ Distance("skew", gd.data_matrix[1], gd.data_matrix[2])
          # Distance("skew", gd.data_matrix[2], gd.data_matrix[1])

\* a square matrix over 0..dim-1 is symmetric and has a zero diagonal
SymmetricZeroDiagonal(matrix, dim) ==
    /\ \A k, m \in Range0(dim) : matrix[k][m] = matrix[m][k]
    /\ \A k \in Range0(dim) : matrix[k][k] = RZero

\* C14: the consensus matrix and the matrix 1 - consensus that
\* hcluster_consensus passes to the final algorithm as its distance matrix
\* are both symmetric with a zero diagonal.
C14_ConsensusAndComplementZeroDiagonal ==
    \A r \in Ranks :
        cc[r].pc = "hcluster" =>
            /\ SymmetricZeroDiagonal(cc[r].consensus_matrix, cfg.num_samples)
            /\ SymmetricZeroDiagonal(Complement(cc[r].consensus_matrix, cfg.num_samples),
                                     cfg.num_samples)

\* C15: a base algorithm called with an invalid K (K < 1 or K > N) raises and
\* never returns normally; for HierarchicalCluster: whenever the constructor
\* has returned, K was between 1 and N.
C15_InvalidKNeverReturns ==
    h_pc = "done" => h_num_clusters \in 1 .. Cardinality(HSamples)

\* the error of a failed scan for the best matching unit
BMUError ==
    /\ som.pc = "raised"
    /\ som.scanned

\* C16: when during SOM training no grid node has a finite distance to the
\* sample, training fails with an error that names the sample and the epoch;
\* no label has been written when it is raised and it is not absorbed.
C16_BMUErrorNamesSampleAndEpoch ==
    /\ (som.pc # "idle" /\ som.scanned /\ ~som.any_finite) => som.pc = "raised"
    /\ BMUError =>
          /\ som.error # None
          /\ som.error[1].values = <<som.k, som.t>>
          /\ \A s \in Range0(som.num_samples) : som.datapoints[s] = None

\* pc values inside the annealing loop of reorder_consensus
Annealing == {"sa", "sa_break"}

\* C17: in the simulated-annealing reorder best_order is always a permutation
\* of 0..N-1, best_energy is the energy of best_order and at least the energy
\* of the current order, best_energy never decreases, and the order returned
\* as reorder_indices is best_order, whose energy is at least the energy of
\* the warm-start order.
C17_BestOrderIsReturned ==
    [][\A r \in Ranks :
        /\ cc'[r].pc \in Annealing =>
              /\ IsPermutation(cc'[r].best_order, cfg.num_samples)
              /\ cc'[r].best_energy = energy(cc'[r].best_order, cc'[r].consensus_matrix)
              /\ ~RLess(cc'[r].best_energy,
                        energy(cc'[r].sample_order, cc'[r].consensus_matrix))
              /\ ~RLess(cc'[r].best_energy, cc'[r].start_energy)
        /\ (cc[r].pc \in Annealing /\ cc'[r].pc \in Annealing) =>
              ~RLess(cc'[r].best_energy, cc[r].best_energy)
        /\ (cc[r].pc \in Annealing /\ cc'[r].pc = "done") =>
              /\ cc'[r].reorder_indices = Some(cc[r].best_order)
              /\ ~RLess(energy(cc[r].best_order, cc[r].consensus_matrix),
                        cc[r].start_energy)]_vars

C17_Witness ==
    \E r \in Ranks :
        /\ cc[r].pc = "done"
        /\ cc[r].tree = None
        /\ cc[r].reorder_indices = Some(cc[r].best_order)
        /\ cc[r].sample_order # cc[r].best_order
        /\ RLess(cc[r].start_energy, cc[r].best_energy)

\* C18: the simulated-annealing reorder terminates for any number of
\* samples: whenever the loop is about to draw a and b for a proposal, some
\* draw with a # b exists, so that `while (a == b)` can be left and the
\* iteration counted towards the caps.
C18_AnnealingDrawCanSucceed ==
    \A r \in Ranks :
        (cc[r].pc = "sa" /\ cc[r].sa_i < 4000000) =>
            \E a, b \in Range0(cfg.num_samples) : a # b

\* C22: the swap search of PAMCluster is first-improvement: a candidate is
\* adopted exactly when it strictly lowers the total cost, and right after an
\* adoption the scan starts again from slot 0 with the new medoids, the other
\* candidates of the slot being left unevaluated.
C22_AdoptionRestartsScan ==
    [][(pam.pc = "cand" /\ pam.search_space # <<>>) =>
        LET candidate == [pam.new_medoids EXCEPT ![pam.i + 1] = Head(pam.search_space)]
            lower     == RLess(PamCost(pam, candidate), pam.old_cost)
        IN  /\ lower <=> pam'.medoids # pam.medoids
            /\ lower => /\ pam'.medoids = candidate
                        /\ pam'.i = 0
                        /\ pam'.pc \in {"while", "slot"}]_vars

\* the medoid lists one swap away from a list: one medoid replaced by a
\* sample that is not a medoid
SingleSwaps(st, medoids) ==
    {[medoids EXCEPT ![x] = s] :
        x \in 1 .. Len(medoids), s \in Range0(st.num_samples) \ Elems(medoids)}

\* no single swap strictly lowers the total cost of the medoids
LocalOptimum(st, medoids) ==
    \A swap \in SingleSwaps(st, medoids) :
        ~RLess(PamCost(st, swap), PamCost(st, medoids))

\* how far the search is inside one pass of while swapped
PassPosition(st) ==
    CASE st.pc = "slot"   -> st.i * (st.num_samples + 2)
      [] st.pc = "cand"   -> st.i * (st.num_samples + 2) + 1
                                + (st.num_samples - Len(st.search_space))
      [] st.pc = "while"  -> st.num_clusters * (st.num_samples + 2) + 1
      [] st.pc = "assign" -> st.num_clusters * (st.num_samples + 2) + 2
      [] OTHER            -> st.num_clusters * (st.num_samples + 2) + 3

\* the step from a to b brings the search nearer to its end: the cost is
\* lower, or it is the same and a pass that swapped is closed, or both are
\* the same and the pass has advanced
Nearer(a, b) ==
    \/ RLess(b.old_cost, a.old_cost)
    \/ /\ b.old_cost = a.old_cost
       /\ \/ b.swapped < a.swapped
          \/ b.swapped = a.swapped /\ PassPosition(b) > PassPosition(a)

\* C23: the search of PAMCluster terminates (every step brings it nearer to
\* its end in a well-founded order), and the medoids it returns are a
\* single-swap local optimum: replacing one of them by a sample that is not a
\* medoid never strictly lowers the total cost.
C23_TerminatesAtALocalOptimum ==
    [][(pam.pc \in {"while", "slot", "cand", "assign"}) =>
        /\ Nearer(pam, pam')
        /\ pam'.pc \in {"assign", "done"} => LocalOptimum(pam', pam'.medoids)]_vars

C23_Witness ==
    /\ pam.pc = "done"
    /\ pam.num_samples = 4
    /\ pam.num_clusters = 2
    /\ Cardinality(SingleSwaps(pam, pam.medoids)) = 4
    /\ ~LocalOptimum(pam, pam.sample)
    /\ LocalOptimum(pam, pam.medoids)
    /\ pam.medoids # pam.sample

\* C24: at every point of the search of PAMCluster the medoids are K
\* pairwise distinct sample indices of 0..N-1 and old_cost is their total
\* cost; every label written at the end is one of the returned medoids.
C24_MedoidsAreKDistinctSamples ==
    /\ pam.pc \in {"while", "slot", "cand", "assign", "done"} =>
          /\ Len(pam.medoids) = pam.num_clusters
          /\ Cardinality(Elems(pam.medoids)) = pam.num_clusters
          /\ Elems(pam.medoids) \subseteq Range0(pam.num_samples)
          /\ pam.old_cost = PamCost(pam, pam.medoids)
    /\ pam.pc = "done" =>
          \A s \in Range0(pam.num_samples) :
              /\ pam.datapoints[s] # None
              /\ pam.datapoints[s][1] \in Elems(pam.medoids)
    /\ pam.pc \in {"while", "slot", "cand", "assign"} =>
          \A s \in Range0(pam.num_samples) : pam.datapoints[s] = None

C24_Witness ==
    /\ pam.pc = "done"
    /\ pam.num_samples = 4
    /\ pam.num_clusters = 3
    /\ Elems(pam.medoids) # Elems(pam.sample)
    /\ {pam.datapoints[s][1] : s \in Range0(4)} = Elems(pam.medoids)

\* centroid index j is nearest to the point: no centroid is nearer, and no
\* centroid of lower index is as near
IsNearest(centroids, point, j) ==
    \A y \in Range0(Len(centroids)) :
        /\ ~RLess(SqEuclidean(At(centroids, y), point), SqEuclidean(At(centroids, j), point))
        /\ y < j => SqEuclidean(At(centroids, y), point) # SqEuclidean(At(centroids, j), point)

\* C26: in a pass of KMeansCluster every sample goes to its nearest centroid
\* (ties to the lowest index), a centroid without samples keeps its
\* coordinates and does not set the moved flag, the loop ends after the first
\* pass in which no coordinate changed, and the labels are the assignment of
\* that last pass: every label is in 0..K-1 and an index without samples in
\* that pass is not a label.
C26_EmptyClustersStayAndLabelsAreTheLastPass ==
    [][(km.pc = "loop" /\ km.num_clusters >= 1) =>
        IF km.moved_flag = 1
        THEN /\ km'.pc = "loop"
             /\ \A c \in Range0(km.num_clusters) :
                   /\ \A s \in Range0(km.num_samples) :
                         s \in Elems(km'.cluster_ids[c])
                            <=> IsNearest(km.centroids, At(km.data_matrix, s), c)
                   /\ km'.cluster_ids[c] = <<>> =>
                         At(km'.centroids, c) = At(km.centroids, c)
             /\ km'.moved_flag = (IF km'.centroids # km.centroids THEN 1 ELSE 0)
             /\ km'.datapoints = km.datapoints
        ELSE /\ km'.pc = "done"
             /\ km'.centroids = km.centroids
             /\ km'.cluster_ids = km.cluster_ids
             /\ \A s \in Range0(km.num_samples) :
                   /\ km'.datapoints[s] # None
                   /\ km'.datapoints[s][1] \in Range0(km.num_clusters)
                   /\ s \in Elems(km.cluster_ids[km'.datapoints[s][1]])
                   /\ IsNearest(km.centroids, At(km.data_matrix, s), km'.datapoints[s][1])]_vars

C26_Witness ==
    /\ km.pc = "done"
    /\ km.num_clusters = 3
    /\ km.num_samples = 3
    /\ km.iterations >= 2
    /\ km.cluster_ids[1] = <<>>
    /\ {km.datapoints[s] : s \in Range0(3)} = {Some(0), Some(2)}

\* C27: SOM training runs exactly num_epochs epochs; an epoch scans every
\* sample once in index order and leaves the node weights alone while it
\* does, and at its end the accumulated deltas are added to the weights once
\* and the accumulator is cleared.
C27_TrainingRunsNumEpochsEpochs ==
    [][(som.pc = "train" /\ som'.pc # "raised") =>
        IF som'.pc = "done"
        THEN som.epochs = som.num_epochs
        ELSE IF som'.t = som.t
        THEN /\ som.k < som.num_samples
             /\ som'.k = som.k + 1
             /\ som'.nodes = som.nodes
        ELSE /\ som.k = som.num_samples
             /\ som'.t = som.t + 1
             /\ som'.epochs = som.epochs + 1
             /\ som'.nodes = [c \in DOMAIN som.nodes |-> som.nodes[c] + som.node_adjust[c]]
             /\ som'.node_adjust = [c \in DOMAIN som.nodes |-> 0]]_vars

\* the nodes of the grid within Chebyshev distance d of node (y, x)
ChebyshevBall(y, x, d, vdim, hdim) ==
    {n \in Range0(vdim) \X Range0(hdim) : Chessboard(y, x, n[1], n[2]) <= d}

\* C28: in every training step of the SOM the nodes that receive a weight
\* delta are exactly the nodes of the grid whose Chebyshev distance from the
\* best matching unit is at most the floor of the current radius.
C28_NeighbourhoodIsTheChebyshevBall ==
    [][(som.pc = "train" /\ som'.pc = "train" /\ som'.k = som.k + 1) =>
        LET rad_int == RadInt(som.hdim, som.vdim, som.t, som.num_epochs)
            ball    == ChebyshevBall(som'.bmu[2], som'.bmu[3], rad_int, som.vdim, som.hdim)
        IN  /\ som'.neighbourhood \subseteq Range0(som.vdim) \X Range0(som.hdim)
            /\ som'.neighbourhood = ball
            /\ \A c \in DOMAIN som.node_adjust :
                  som'.node_adjust[c] # som.node_adjust[c]
                      <=> <<c \div som.hdim, c % som.hdim>> \in ball]_vars

\* the orders got from an order by taking one element out and putting it in
\* at another position
Insertions(order) ==
    LET moved(p, q) ==
            [x \in 1 .. Len(order) |->
                IF p < q
                THEN (IF x < p \/ x > q THEN order[x] ELSE IF x = q THEN order[p] ELSE order[x + 1])
                ELSE (IF x < q \/ x > p THEN order[x] ELSE IF x = q THEN order[p] ELSE order[x - 1])]
    IN  {moved(pq[1], pq[2]) : pq \in {pq \in (DOMAIN order) \X (DOMAIN order) : pq[1] # pq[2]}}

\* C29: in each annealing iteration the proposal moves one element to another
\* position by insertion, so it is a permutation that differs from the
\* previous order; a proposal of lower energy is kept or else replaced by
\* exactly the previous order with not_accepted incremented; a proposal whose
\* energy is not lower is always kept, and it becomes the new best, with
\* last_best set to the iteration, exactly when its energy exceeds best_energy.
C29_ProposalIsKeptOrUndone ==
    [][\A r \in Ranks :
        (cc[r].pc = "sa" /\ cc'[r].pc \in Annealing /\ cc'[r].sa_i = cc[r].sa_i + 1) =>
            LET i           == cc[r].sa_i
                matrix      == cc[r].consensus_matrix
                last_order  == cc[r].sample_order
                last_energy == energy(last_order, matrix)
                new_order   == cc'[r].sample_order
                new_energy  == energy(new_order, matrix)
                best_kept   == /\ cc'[r].best_order = cc[r].best_order
                               /\ cc'[r].best_energy = cc[r].best_energy
                               /\ cc'[r].last_best = cc[r].last_best
                best_set    == /\ cc'[r].best_order = new_order
                               /\ cc'[r].best_energy = new_energy
                               /\ cc'[r].last_best = i
                kept        == /\ new_order \in Insertions(last_order)
                               /\ IsPermutation(new_order, cfg.num_samples)
                               /\ new_order # last_order
                               /\ cc'[r].not_accepted = cc[r].not_accepted
                               /\ IF RLess(new_energy, last_energy) THEN best_kept
                                  ELSE IF RLess(cc[r].best_energy, new_energy) THEN best_set
                                  ELSE best_kept
                undone      == /\ new_order = last_order
                               /\ cc'[r].not_accepted = cc[r].not_accepted + 1
                               /\ best_kept
                               /\ \E order \in Insertions(last_order) :
                                     RLess(energy(order, matrix), last_energy)
            IN  kept \/ undone]_vars

\* iteration 1 kept a proposal as the new best; iteration 2 undid its proposal
C29_Witness ==
    \E r \in Ranks :
        /\ cc[r].pc \in Annealing
        /\ cc[r].sa_i = 3
        /\ cc[r].last_best = 1
        /\ cc[r].not_accepted = 1
        /\ cc[r].sample_order = cc[r].best_order
        /\ RLess(cc[r].start_energy, cc[r].best_energy)

\* C30: the annealing temperature starts at 0.5; in an iteration i that is a
\* multiple of 2000 below 25000 it grows by exactly 1 iff (i - not_accepted)/i
\* is below 10%; in an iteration that is a multiple of 25000 it is multiplied
\* by 0.90; in every other iteration it stays.  So it is always strictly
\* positive and never grows from iteration 25000 on.
C30_TemperatureSchedule ==
    [][/\ (sched.pc = "loop" /\ sched.i = 1) => sched.temp = <<1, 2>>
       /\ (sched.pc = "loop" /\ sched'.pc = "loop" /\ sched'.i > sched.i) =>
            LET i          == sched.i
                rate_below == 10 * (i - sched.not_accepted) < i
                ramp       == i % 2000 = 0 /\ i < 25000
                decay      == i % 25000 = 0
                expected   == IF sched'.i > i + 1 THEN sched.temp
                              ELSE IF ramp /\ rate_below THEN RAdd(sched.temp, ROne)
                              ELSE IF decay THEN RMul(sched.temp, <<9, 10>>)
                              ELSE sched.temp
            IN  /\ sched'.i > i + 1 =>
                      \A k \in i .. (sched'.i - 1) : k % 2000 # 0 /\ k % 25000 # 0
                /\ sched'.temp = expected
                /\ RLess(RZero, sched.temp) /\ RLess(RZero, sched'.temp)
                /\ sched'.i > 25000 => ~RLess(sched.temp, sched'.temp)]_vars

\* past iteration 50000, after one ramp and both decays
C30_Witness ==
    /\ sched.pc = "loop"
    /\ sched.i > 50000
    /\ sched.temp = RMul(RMul(<<3, 2>>, <<9, 10>>), <<9, 10>>)

====
